---- MODULE Spec2Model ----
(***************************************************************************)
(* Model of the stargazing decision logic of StargazingMCP:                *)
(*   IndianWeatherService.get_stargazing_weather_assessment                *)
(*   AstronomyService.get_best_viewing_times, get_celestial_events         *)
(*   get_city_info, find_nearby_cities (indian_locations.py)               *)
(* These are pure functions of their arguments.  A behaviour of Spec is    *)
(* one call: the initial state holds the arguments, the action applies the *)
(* function and stores what it returns.                                    *)
(*                                                                         *)
(* Further specifications:                                                 *)
(*   ForecastSpec   one run of the get_stargazing_forecast tool            *)
(*   ToolsSpec      one run of any tool of mcp_server.py that takes a city *)
(*   SharedSpec     callers interleaving on the shared service instances   *)
(*   KeepAliveSpec  the keep-alive thread of app.py                        *)
(*   ServerSpec     the tools without arguments of the two small servers   *)
(*                                                                         *)
(* Python values are tagged records:                                       *)
(*   [k |-> "absent"]  the key is not in the dict                          *)
(*   [k |-> "none"]    the key is present with value None                  *)
(*   [k |-> "num"]     an int, in field v                                  *)
(*   [k |-> "str"]     a str, in field s as a tuple of code points         *)
(***************************************************************************)
EXTENDS Integers, Sequences, FiniteSets

VARIABLES call, weather_data, sun_moon_data, result

\* State of one run of the get_stargazing_forecast tool: the statement it is
\* at, the dicts bound to its locals weather_data, weather_assessment,
\* sun_moon_data and viewing_times, and the calls made so far.
VARIABLES pc, weather, assessment, astro, viewing, log

toolVars == <<pc, weather, assessment, astro, viewing, log>>

\* Callers of the two shared service instances: what each caller runs and
\* where it is, the local variables of the running calls, the attributes of
\* the instances, the number of calls started, and whether a caller has
\* taken a step while another call was under way.
VARIABLES callers, frames, services, started, overlap

sharedVars == <<callers, frames, services, started, overlap>>

\* The arguments of the call under way other than the two readings: a city
\* name, coordinates and a radius, a date and a number of days.
VARIABLES args

\* The keep-alive thread of app.py: the statement it is at, its locals
\* consecutive_failures and response, what it has printed, and the number of
\* iterations started.
VARIABLES loop_pc, consecutive_failures, response, printed, iterations

loopVars == <<loop_pc, consecutive_failures, response, printed, iterations>>

\* The tool calls a server has answered, with what each returned.
VARIABLES served

appVars == <<loopVars, served>>

vars == <<call, weather_data, sun_moon_data, result, toolVars, sharedVars, args, appVars>>

\* Callers that may use the service instances at the same time.
NumCallers == 2

\* Calls started in one behaviour.
MaxCalls == 3

\* Half-width of the neighbourhood enumerated around each threshold.
Delta == 1

\* Iterations of the keep-alive loop in one behaviour.
MaxIterations == 5

\* Tool calls a server answers in one behaviour.
MaxRequests == 4

\* ------------------------------------------------------------------------
\* Python values
\* ------------------------------------------------------------------------
Absent == [k |-> "absent", v |-> 0, s |-> <<>>]
None == [k |-> "none", v |-> 0, s |-> <<>>]
Num(n) == [k |-> "num", v |-> n, s |-> <<>>]
Str(chars) == [k |-> "str", v |-> 0, s |-> chars]

\* dict.get(key, default): the default is used only when the key is absent;
\* a key present with value None yields None.
Get(field, default) == IF field.k = "absent" THEN default ELSE field

\* "HH:MM" with zero padding, as a tuple of code points ('0' = 48, ':' = 58).
HHMM(h, m) == <<48 + (h \div 10), 48 + (h % 10), 58, 48 + (m \div 10), 48 + (m % 10)>>

\* Python's str "<": lexicographic on code points, a proper prefix is smaller.
RECURSIVE StrLess(_, _)
StrLess(a, b) ==
  IF b = <<>> THEN FALSE
  ELSE IF a = <<>> THEN TRUE
  ELSE IF Head(a) < Head(b) THEN TRUE
  ELSE IF Head(a) > Head(b) THEN FALSE
  ELSE StrLess(Tail(a), Tail(b))

\* Truthiness of a value used in a boolean context: None and "" are falsy.
Truthy(x) ==
  CASE x.k = "none" -> FALSE
    [] x.k = "str" -> x.s # <<>>
    [] x.k = "num" -> x.v # 0
    [] OTHER -> FALSE

\* ------------------------------------------------------------------------
\* IndianWeatherService.get_stargazing_weather_assessment
\* ------------------------------------------------------------------------
\* _get_weather_recommendation with the first bracket starting above 80.
RecommendationStrict(score) ==
  IF score > 80 THEN "Perfect conditions for stargazing! Clear skies and excellent visibility."
  ELSE IF score >= 65 THEN "Good stargazing weather. Some clouds but should have clear patches."
  ELSE IF score >= 45 THEN "Fair conditions. Wait for cloud breaks or focus on bright objects."
  ELSE "Poor conditions for stargazing. Plan for another night."

_get_weather_recommendation(score) ==
  IF score >= 80 THEN "Perfect conditions for stargazing! Clear skies and excellent visibility."
  ELSE IF score >= 65 THEN "Good stargazing weather. Some clouds but should have clear patches."
  ELSE IF score >= 45 THEN "Fair conditions. Wait for cloud breaks or focus on bright objects."
  ELSE "Poor conditions for stargazing. Plan for another night."

Max(a, b) == IF a >= b THEN a ELSE b
Min(a, b) == IF a <= b THEN a ELSE b

ErrorResult == [kind |-> "error"]

\* ReadCurrent with the cloud default of _format_weather_union_data (0).
ReadCurrentCloudDefaultZero(wd) ==
  [clouds |-> Get(wd.clouds, Num(0)),
   humidity |-> Get(wd.humidity, Num(60)),
   wind_speed |-> Get(wd.wind_speed, Num(5)),
   visibility |-> Get(wd.visibility, Num(10)),
   rain |-> Get(wd.rain, Num(0))]

\* The five fields read from weather_data["current"], each with its default.
ReadCurrent(wd) ==
  [clouds |-> Get(wd.clouds, Num(50)),
   humidity |-> Get(wd.humidity, Num(60)),
   wind_speed |-> Get(wd.wind_speed, Num(5)),
   visibility |-> Get(wd.visibility, Num(10)),
   rain |-> Get(wd.rain, Num(0))]

\* CloudImpact with the two heaviest penalties exchanged.
CloudImpactSwapped(score, clouds) ==
  IF clouds > 80 THEN score - 30
  ELSE IF clouds > 60 THEN score - 50
  ELSE IF clouds > 40 THEN score - 20
  ELSE IF clouds > 20 THEN score - 10
  ELSE score

CloudImpact(score, clouds) ==
  IF clouds > 80 THEN score - 50
  ELSE IF clouds > 60 THEN score - 30
  ELSE IF clouds > 40 THEN score - 20
  ELSE IF clouds > 20 THEN score - 10
  ELSE score

HumidityImpact(score, humidity) ==
  IF humidity > 90 THEN score - 15
  ELSE IF humidity > 80 THEN score - 10
  ELSE IF humidity > 70 THEN score - 5
  ELSE score

RainImpact(score, rain) == IF rain > 0 THEN score - 40 ELSE score

VisibilityImpact(score, visibility) ==
  IF visibility < 5 THEN score - 20
  ELSE IF visibility < 8 THEN score - 10
  ELSE score

\* WindImpact with the bonus bracket open at 5.
WindImpactOpenBracket(score, wind_speed) ==
  IF wind_speed > 15 THEN score - 10
  ELSE IF 5 < wind_speed /\ wind_speed <= 15 THEN score + 5
  ELSE score

WindImpact(score, wind_speed) ==
  IF wind_speed > 15 THEN score - 10
  ELSE IF 5 <= wind_speed /\ wind_speed <= 15 THEN score + 5
  ELSE score

\* DetermineRating with the Excellent bracket starting above 80.
DetermineRatingStrict(score) ==
  IF score > 80 THEN [rating |-> "Excellent", emoji |-> "glowing star"]
  ELSE IF score >= 65 THEN [rating |-> "Good", emoji |-> "star"]
  ELSE IF score >= 45 THEN [rating |-> "Fair", emoji |-> "cloud"]
  ELSE [rating |-> "Poor", emoji |-> "cloud with rain"]

\* The rating and the emoji are chosen on the score before it is clamped.
DetermineRating(score) ==
  IF score >= 80 THEN [rating |-> "Excellent", emoji |-> "glowing star"]
  ELSE IF score >= 65 THEN [rating |-> "Good", emoji |-> "star"]
  ELSE IF score >= 45 THEN [rating |-> "Fair", emoji |-> "cloud"]
  ELSE [rating |-> "Poor", emoji |-> "cloud with rain"]

\* ClampScore without the upper clamp.
ClampScoreLowerOnly(score) == Max(0, score)

ClampScore(score) == Max(0, Min(100, score))

get_stargazing_weather_assessment(wd) ==
  LET current == ReadCurrent(wd)
  IN  \* an order comparison of None with an int raises TypeError, which the
      \* surrounding try/except turns into {"error": ...}
      IF \E f \in DOMAIN current : current[f].k # "num"
      THEN ErrorResult
      ELSE
        LET s1 == CloudImpact(100, current.clouds.v)
            s2 == HumidityImpact(s1, current.humidity.v)
            s3 == RainImpact(s2, current.rain.v)
            s4 == VisibilityImpact(s3, current.visibility.v)
            score == WindImpact(s4, current.wind_speed.v)
            r == DetermineRating(score)
        IN [kind |-> "ok",
            score |-> ClampScore(score),
            rating |-> r.rating,
            emoji |-> r.emoji,
            precipitation |-> IF current.rain.v > 0 THEN "Yes" ELSE "No",
            recommendation |-> _get_weather_recommendation(score)]

\* ------------------------------------------------------------------------
\* AstronomyService.get_best_viewing_times
\* ------------------------------------------------------------------------
IsDigit(c) == 48 <= c /\ c <= 57

RECURSIVE DigitsValue(_)
DigitsValue(ds) ==
  IF ds = <<>> THEN 0
  ELSE 10 * DigitsValue(SubSeq(ds, 1, Len(ds) - 1)) + (ds[Len(ds)] - 48)

\* float(text) for the decimal notation [+-] digits [. digits]; any other text
\* raises ValueError.  The value is sign * num / 10^scale.
ParseFloat(text) ==
  LET signed == text # <<>> /\ Head(text) \in {43, 45}
      body == IF signed THEN Tail(text) ELSE text
      dots == {i \in 1..Len(body) : body[i] = 46}
      digits == SelectSeq(body, IsDigit)
      wellFormed == /\ \A i \in 1..Len(body) : IsDigit(body[i]) \/ body[i] = 46
                    /\ Cardinality(dots) <= 1
                    /\ digits # <<>>
  IN IF ~wellFormed THEN [ok |-> FALSE, num |-> 0, scale |-> 0]
     ELSE [ok |-> TRUE,
           num |-> (IF signed /\ Head(text) = 45 THEN -1 ELSE 1) * DigitsValue(digits),
           scale |-> IF dots = {} THEN 0 ELSE Len(body) - (CHOOSE i \in dots : TRUE)]

RECURSIVE Pow10(_)
Pow10(n) == IF n = 0 THEN 1 ELSE 10 * Pow10(n - 1)

QualityTips(quality) ==
  IF quality = "Excellent" THEN
    <<"Perfect conditions for deep-sky photography",
      "Try observing faint galaxies like Andromeda",
      "Great time for meteor shower observation">>
  ELSE IF quality = "Good" THEN
    <<"Focus on bright planets and star clusters",
      "Double stars will be clearly visible",
      "Good for lunar observation">>
  ELSE IF quality = "Fair" THEN
    <<"Stick to bright objects like planets",
      "Moon and bright stars will be visible",
      "Wait for cloud breaks">>
  ELSE
    <<"Consider indoor astronomy activities",
      "Plan for better weather tomorrow",
      "Use astronomy apps to plan future sessions">>

\* Returns [raised |-> TRUE] when the moon illumination is not a str
\* (AttributeError on .replace) or not a number in text form (ValueError).
_get_viewing_tips(quality, astronomy) ==
  LET moon_illumination == Get(astronomy.moon_illumination_percentage, Str(<<53, 48>>))
      stripped == SelectSeq(moon_illumination.s, LAMBDA c : c # 37)
      f == ParseFloat(stripped)
  IN IF moon_illumination.k # "str" \/ ~f.ok THEN [raised |-> TRUE, tips |-> <<>>]
     ELSE [raised |-> FALSE,
           tips |-> QualityTips(quality) \o
             (IF f.num > 80 * Pow10(f.scale)
                THEN <<"Bright moon - excellent for lunar observation but challenging for deep-sky">>
              ELSE IF f.num < 20 * Pow10(f.scale)
                THEN <<"New moon phase - perfect for observing faint deep-sky objects">>
              ELSE <<>>)]

\* ReadTimes with the sunset default replaced by the sunrise default.
ReadTimesSunriseDefault(smd) ==
  [sunset |-> Get(smd.sunset, Str(HHMM(6, 30))),
   moonset |-> Get(smd.moonset, Str(HHMM(23, 30)))]

\* sunset and moonset with their defaults.
ReadTimes(smd) ==
  [sunset |-> Get(smd.sunset, Str(HHMM(18, 45))),
   moonset |-> Get(smd.moonset, Str(HHMM(23, 30)))]

\* ViewingQuality with the Poor bracket starting above 80.
ViewingQualityPoorAbove80(cloud_cover) ==
  IF cloud_cover > 80 THEN "Poor"
  ELSE IF cloud_cover > 40 THEN "Fair"
  ELSE IF cloud_cover > 20 THEN "Good"
  ELSE "Excellent"

ViewingQuality(cloud_cover) ==
  IF cloud_cover > 70 THEN "Poor"
  ELSE IF cloud_cover > 40 THEN "Fair"
  ELSE IF cloud_cover > 20 THEN "Good"
  ELSE "Excellent"

EveningWindow(sunset, viewing_quality) ==
  [period |-> "Evening",
   start_time |-> sunset,
   end_time |-> HHMM(23, 0),
   quality |-> viewing_quality,
   description |-> "Best for planetary observation and bright deep-sky objects"]

\* LateNightQuality with the upgrade at cloud cover 30 included.
LateNightQualityInclusive(cloud_cover, viewing_quality) ==
  IF cloud_cover <= 30 THEN "Excellent" ELSE viewing_quality

\* LateNightQuality with the upgrade labelled Good.
LateNightQualityGood(cloud_cover, viewing_quality) ==
  IF cloud_cover < 30 THEN "Good" ELSE viewing_quality

LateNightQuality(cloud_cover, viewing_quality) ==
  IF cloud_cover < 30 THEN "Excellent" ELSE viewing_quality

LateNightWindow(moonset, cloud_cover, viewing_quality) ==
  [period |-> "Late Night",
   start_time |-> moonset,
   end_time |-> HHMM(4, 0),
   quality |-> LateNightQuality(cloud_cover, viewing_quality),
   description |-> "Dark skies perfect for faint galaxies and nebulae"]

\* MoonSetsEarly with "02:00" itself counted as early.
MoonSetsEarlyInclusive(moonset) ==
  Truthy(moonset) /\ ~StrLess(HHMM(2, 0), moonset.s)

\* moonset and moonset < "02:00", for a moonset that is None or a str
MoonSetsEarly(moonset) == Truthy(moonset) /\ StrLess(moonset.s, HHMM(2, 0))

\* BestTimes with the late-night window put first.
BestTimesLateFirst(evening, late_night, early) ==
  IF early THEN <<late_night, evening>> ELSE <<evening>>

BestTimes(evening, late_night, early) ==
  IF early THEN <<evening, late_night>> ELSE <<evening>>

get_best_viewing_times(smd, wd) ==
  LET times == ReadTimes(smd)
      cloud_cover == Get(wd.clouds, Num(50))
      visibility == Get(wd.visibility, Num(10))
      viewing_quality == ViewingQuality(cloud_cover.v)
      tips == _get_viewing_tips(viewing_quality, smd)
  IN  \* None > 70 raises TypeError; so does a truthy non-str moonset < "02:00"
      IF cloud_cover.k # "num" THEN ErrorResult
      ELSE IF Truthy(times.moonset) /\ times.moonset.k # "str" THEN ErrorResult
      ELSE IF tips.raised THEN ErrorResult
      ELSE [kind |-> "ok",
            viewing_times |->
              BestTimes(EveningWindow(times.sunset, viewing_quality),
                        LateNightWindow(times.moonset, cloud_cover.v, viewing_quality),
                        MoonSetsEarly(times.moonset)),
            conditions |-> [cloud_cover |-> cloud_cover,
                            visibility |-> visibility,
                            overall_quality |-> viewing_quality],
            tips |-> tips.tips]

\* ------------------------------------------------------------------------
\* indian_locations.py
\* ------------------------------------------------------------------------
\* An entry of the table: the key as code points, latitude and longitude in
\* 1/10000 of a degree.
City(key, lat, lon, state) ==
  [key |-> key,
   info |-> [lat |-> lat, lon |-> lon, state |-> state, timezone |-> "Asia/Kolkata"]]

\* The table, in the order of the dict.
INDIAN_CITIES ==
  <<
    City(<<100, 101, 108, 104, 105>>,
         286139, 772090, "Delhi"),
    City(<<109, 117, 109, 98, 97, 105>>,
         190760, 728777, "Maharashtra"),
    City(<<98, 97, 110, 103, 97, 108, 111, 114, 101>>,
         129716, 775946, "Karnataka"),
    City(<<107, 111, 108, 107, 97, 116, 97>>,
         225726, 883639, "West Bengal"),
    City(<<99, 104, 101, 110, 110, 97, 105>>,
         130827, 802707, "Tamil Nadu"),
    City(<<104, 121, 100, 101, 114, 97, 98, 97, 100>>,
         173850, 784867, "Telangana"),
    City(<<112, 117, 110, 101>>,
         185204, 738567, "Maharashtra"),
    City(<<97, 104, 109, 101, 100, 97, 98, 97, 100>>,
         230225, 725714, "Gujarat"),
    City(<<106, 97, 105, 112, 117, 114>>,
         269124, 757873, "Rajasthan"),
    City(<<117, 100, 97, 105, 112, 117, 114>>,
         245854, 737125, "Rajasthan"),
    City(<<109, 97, 110, 97, 108, 105>>,
         322432, 771892, "Himachal Pradesh"),
    City(<<114, 105, 115, 104, 105, 107, 101, 115, 104>>,
         300869, 782676, "Uttarakhand"),
    City(<<111, 111, 116, 121>>,
         114064, 766932, "Tamil Nadu"),
    City(<<103, 111, 97>>,
         152993, 741240, "Goa"),
    City(<<100, 97, 114, 106, 101, 101, 108, 105, 110, 103>>,
         270410, 882663, "West Bengal"),
    City(<<115, 104, 105, 109, 108, 97>>,
         311048, 771734, "Himachal Pradesh"),
    City(<<99, 111, 111, 114, 103>>,
         123375, 758069, "Karnataka"),
    City(<<109, 111, 117, 110, 116, 95, 97, 98, 117>>,
         245925, 727156, "Rajasthan"),
    City(<<108, 117, 99, 107, 110, 111, 119>>,
         285355, 773910, "Uttar Pradesh"),
    City(<<98, 104, 111, 112, 97, 108>>,
         232599, 774126, "Madhya Pradesh"),
    City(<<99, 104, 97, 110, 100, 105, 103, 97, 114, 104>>,
         307333, 767794, "Chandigarh"),
    City(<<116, 104, 105, 114, 117, 118, 97, 110, 97, 110, 116, 104, 97, 112, 117, 114, 97, 109>>,
         85241, 769366, "Kerala")
  >>

\* A dict as a Python value.
Dict(d) == [k |-> "dict", d |-> d]

\* city_name.lower(), for ASCII text
Lower(text) ==
  [i \in 1..Len(text) |-> IF 65 <= text[i] /\ text[i] <= 90 THEN text[i] + 32 ELSE text[i]]

\* .replace(" ", "_")
ReplaceSpaces(text) == [i \in 1..Len(text) |-> IF text[i] = 32 THEN 95 ELSE text[i]]

\* INDIAN_CITIES.get(city_key)
CitiesGet(city_key) ==
  IF \E i \in DOMAIN INDIAN_CITIES : INDIAN_CITIES[i].key = city_key
  THEN Dict(INDIAN_CITIES[CHOOSE i \in DOMAIN INDIAN_CITIES :
                            INDIAN_CITIES[i].key = city_key].info)
  ELSE None

\* get_city_info with the spaces left as they are.
get_city_info_keeps_spaces(city_name) == CitiesGet(Lower(city_name))

get_city_info(city_name) == CitiesGet(ReplaceSpaces(Lower(city_name)))

\* distance = 6371 * c of the Haversine formula from the point (lat, lon) to
\* every entry of the table, in table order, in km rounded up to a whole
\* number (so that distance <= r and distance > r are exact for whole r).
\* The values are those the formula of the source gives for the coordinates
\* of delhi, mumbai and mount_abu and for the point (0, 0).
Haversine(lat, lon) ==
  CASE <<lat, lon>> = <<286139, 772090>> ->
       <<0, 1149, 1740, 1304, 1756, 1256, 1173, 776, 236, 567, 404, 194,
         1915, 1515, 1101, 277, 1816, 632, 20, 596, 240, 2235>>
    [] <<lat, lon>> = <<190760, 728777>> ->
       <<1149, 0, 846, 1655, 1034, 622, 121, 440, 921, 619, 1527, 1340,
         946, 441, 1805, 1406, 813, 614, 1148, 662, 1355, 1253>>
    [] <<lat, lon>> = <<245925, 727156>> ->
       <<632, 614, 1391, 1610, 1506, 1001, 686, 176, 402, 101, 957, 821,
         1526, 1044, 1580, 847, 1401, 0, 639, 500, 792, 1843>>
    [] <<lat, lon>> = <<0, 0>> ->
       <<8762, 8212, 8664, 9840, 8955, 8787, 8308, 8229, 8602, 8365, 8806,
         8881, 8558, 8307, 9836, 8790, 8467, 8265, 8779, 8724, 8747, 8572>>

\* the loop of find_nearby_cities: the (city, info, distance) triples within
\* the radius, in table order
Nearby(lat, lon, radius_km) ==
  LET km == Haversine(lat, lon)
      upto[i \in 0..Len(INDIAN_CITIES)] ==
        IF i = 0 THEN <<>>
        ELSE IF km[i] <= radius_km
             THEN Append(upto[i - 1], <<INDIAN_CITIES[i].key, INDIAN_CITIES[i].info, km[i]>>)
             ELSE upto[i - 1]
  IN upto[Len(INDIAN_CITIES)]

\* key=lambda x: x[12]: index 12 of a tuple, IndexError when it has no such
\* element
SortKey(x) ==
  IF Len(x) > 12 THEN [raised |-> FALSE, key |-> x[12 + 1]]
  ELSE [raised |-> TRUE, key |-> 0]

\* sorted(..., key=...): ascending by key and stable
InsertByKey(x, s) ==
  LET before == SelectSeq(s, LAMBDA y : SortKey(y).key <= SortKey(x).key)
      after == SelectSeq(s, LAMBDA y : SortKey(y).key > SortKey(x).key)
  IN before \o <<x>> \o after

RECURSIVE Sorted(_)
Sorted(s) ==
  IF s = <<>> THEN <<>>
  ELSE InsertByKey(s[Len(s)], Sorted(SubSeq(s, 1, Len(s) - 1)))

\* sorted calls the key function on every element of the list
find_nearby_cities(lat, lon, radius_km) ==
  LET nearby == Nearby(lat, lon, radius_km)
  IN IF \E i \in 1..Len(nearby) : SortKey(nearby[i]).raised
     THEN [kind |-> "raised", error |-> "IndexError"]
     ELSE [kind |-> "ok", cities |-> Sorted(nearby)]

\* ------------------------------------------------------------------------
\* AstronomyService.get_celestial_events
\* ------------------------------------------------------------------------
\* The calendar of datetime: a date is [year, month, day].
IsLeap(year) == year % 4 = 0 /\ (year % 100 # 0 \/ year % 400 = 0)

DaysInMonth(year, month) ==
  IF month = 2 THEN (IF IsLeap(year) THEN 29 ELSE 28)
  ELSE IF month \in {4, 6, 9, 11} THEN 30
  ELSE 31

NextDay(d) ==
  IF d.day < DaysInMonth(d.year, d.month) THEN [d EXCEPT !.day = d.day + 1]
  ELSE IF d.month < 12 THEN [d EXCEPT !.month = d.month + 1, !.day = 1]
  ELSE [year |-> d.year + 1, month |-> 1, day |-> 1]

\* base_date + timedelta(days=i), for i >= 0
RECURSIVE AddDays(_, _)
AddDays(d, i) == IF i = 0 THEN d ELSE NextDay(AddDays(d, i - 1))

\* date.strftime("%Y-%m-%d"), for a year of four digits
TwoDigits(n) == <<48 + (n \div 10), 48 + (n % 10)>>
FormatDate(d) ==
  TwoDigits(d.year \div 100) \o TwoDigits(d.year % 100) \o <<45>>
    \o TwoDigits(d.month) \o <<45>> \o TwoDigits(d.day)

\* Range that starts with tomorrow.
RangeFromOne(n) == IF n > 0 THEN [i \in 1..n |-> i] ELSE <<>>

\* range(days_ahead), as the sequence of its values
Range(n) == IF n > 0 THEN [i \in 1..n |-> i - 1] ELSE <<>>

\* the events appended for one date
EventsOn(date) ==
  (IF date.day % 7 = 0
   THEN <<[date |-> FormatDate(date), time |-> "21:30", event |-> "Jupiter at opposition"]>>
   ELSE <<>>)
  \o
  (IF date.day % 14 = 0
   THEN <<[date |-> FormatDate(date), time |-> "02:00",
           event |-> "Geminids Meteor Shower peak"]>>
   ELSE <<>>)

\* base_date is what datetime.now() returns
get_celestial_events(base_date, lat, lon, days_ahead) ==
  LET offsets == Range(days_ahead)
      events[i \in 0..Len(offsets)] ==
        IF i = 0 THEN <<>>
        ELSE events[i - 1] \o EventsOn(AddDays(base_date, offsets[i]))
  IN [kind |-> "ok", events |-> events[Len(offsets)], location |-> <<lat, lon>>]

\* ------------------------------------------------------------------------
\* Arguments
\* ------------------------------------------------------------------------
Around(t) == (t - Delta + 1)..(t + Delta)

CloudValues == {0, 100} \cup Around(20) \cup Around(29) \cup Around(40)
               \cup Around(60) \cup Around(70) \cup Around(80)
HumidityValues == Around(70) \cup Around(80) \cup Around(90)
WindValues == Around(4) \cup Around(15)
VisibilityValues == Around(4) \cup Around(7)
RainValues == 0..Delta

Field(values) == {Absent, None} \cup {Num(n) : n \in values}

NoWeather == [clouds |-> Absent, humidity |-> Absent, wind_speed |-> Absent,
              visibility |-> Absent, rain |-> Absent]
NoSunMoon == [sunset |-> Absent, moonset |-> Absent, moon_illumination_percentage |-> Absent]

\* "-:-", "100:00", "75", "85%", "10", "7.5", "N/A"
NoMoonset == <<45, 58, 45>>
HundredHours == <<49, 48, 48, 58, 48, 48>>
SunsetValues == {Absent, Str(HHMM(18, 45)), Str(HHMM(17, 5))}
MoonsetValues == {Absent, None, Str(<<>>), Str(NoMoonset), Str(HundredHours)}
                 \cup {Str(HHMM(h, m)) : h \in {1, 2, 8, 23}, m \in {0, 30, 59}}
IlluminationValues == {Absent, None, Str(<<55, 53>>), Str(<<56, 53, 37>>), Str(<<49, 48>>),
                       Str(<<55, 46, 53>>), Str(<<78, 47, 65>>)}
ClockTimes == {HHMM(h, m) : h \in 0..23, m \in 0..59}

Pending == [kind |-> "pending"]

\* The service instances as constructed with no API key in the environment,
\* and no caller using them.
Services == [weather_union_key |-> "", openweather_key |-> "", astronomy_api_key |-> "",
             nasa_api_key |-> "DEMO_KEY"]
NoLocals == [current |-> NoWeather, score |-> 0, rating |-> "", emoji |-> "",
             times |-> [sunset |-> Absent, moonset |-> Absent],
             cloud_cover |-> Absent, visibility |-> Absent,
             viewing_quality |-> "", best_times |-> <<>>]
IdleCaller == [pc |-> "idle", op |-> "", wd |-> NoWeather, smd |-> NoSunMoon, result |-> Pending]
NoCallers ==
  /\ callers = [c \in 1..NumCallers |-> IdleCaller]
  /\ frames = [f \in 1..NumCallers |-> NoLocals]
  /\ services = Services
  /\ started = 0
  /\ overlap = FALSE

\* No argument besides the readings; the keep-alive thread not started and
\* no tool call answered.
NoArgs == <<>>
NoResponse == [status_code |-> 0]
AppIdle ==
  /\ loop_pc = "idle"
  /\ consecutive_failures = 0
  /\ response = NoResponse
  /\ printed = <<>>
  /\ iterations = 0
  /\ served = <<>>

\* No tool run is in progress.
NoDict == [keys |-> {}, source |-> "", current |-> NoWeather]
NoAstro == [keys |-> {}, is_dict |-> TRUE, astronomy |-> NoSunMoon]
ToolIdle ==
  /\ pc = "idle"
  /\ weather = NoDict
  /\ assessment = Pending
  /\ astro = NoAstro
  /\ viewing = Pending
  /\ log = <<>>

\* City names: every key of the table, in upper case, with spaces for the
\* underscores, capitalised, and names that are in no way in the table.
Upper(text) ==
  [i \in 1..Len(text) |-> IF 97 <= text[i] /\ text[i] <= 122 THEN text[i] - 32 ELSE text[i]]
Spaced(text) == [i \in 1..Len(text) |-> IF text[i] = 95 THEN 32 ELSE text[i]]
Capitalised(text) ==
  [i \in 1..Len(text) |->
     IF (i = 1 \/ text[i - 1] \in {32, 95}) /\ 97 <= text[i] /\ text[i] <= 122
     THEN text[i] - 32 ELSE text[i]]
CityKeys == {INDIAN_CITIES[i].key : i \in DOMAIN INDIAN_CITIES}
UnknownNames ==
  {<<>>, <<32, 100, 101, 108, 104, 105>>, <<100, 101, 108, 104, 105, 32>>,
   <<78, 101, 119, 32, 68, 101, 108, 104, 105>>,
   <<77, 111, 117, 110, 116, 32, 32, 65, 98, 117>>,
   <<109, 111, 117, 110, 116, 45, 97, 98, 117>>,
   <<109, 111, 117, 110, 116, 97, 98, 117>>,
   <<65, 116, 108, 97, 110, 116, 105, 115>>}
CityNames ==
  CityKeys \cup {Upper(k) : k \in CityKeys} \cup {Spaced(k) : k \in CityKeys}
    \cup {Capitalised(Spaced(k)) : k \in CityKeys} \cup {Capitalised(k) : k \in CityKeys}
    \cup UnknownNames

\* Points to search from: delhi, mumbai, mount_abu and (0, 0); radii around
\* the distances of the nearest entries.
QueryPoints == {<<286139, 772090>>, <<190760, 728777>>, <<245925, 727156>>, <<0, 0>>}
Radii == {-1, 0, 19, 20, 100, 101, 236, 700}

\* Dates datetime.now() can return, and numbers of days asked for.
Dates == {[year |-> y, month |-> m, day |-> d] :
            y \in {2024, 2025}, m \in 1..12, d \in 1..31}
BaseDates == {d \in Dates : d.day <= DaysInMonth(d.year, d.month)}
DaysAhead == {-1, 0, 1, 7, 8, 14, 30}

\* One call of the assessor on any reading, or one call of the selector on
\* any astronomy reading with a reading whose cloud, visibility and rain
\* fields vary, or on any zero-padded clock time as moonset; or one call of
\* get_city_info, find_nearby_cities or get_celestial_events.
Init ==
  /\ result = Pending
  /\ ToolIdle
  /\ NoCallers
  /\ AppIdle
  /\ \/ /\ call = "assess"
        /\ args = NoArgs
        /\ sun_moon_data = NoSunMoon
        /\ weather_data \in [clouds : Field(CloudValues), humidity : Field(HumidityValues),
                             wind_speed : Field(WindValues),
                             visibility : Field(VisibilityValues),
                             rain : Field(RainValues)]
     \/ /\ call = "best_times"
        /\ args = NoArgs
        /\ sun_moon_data \in [sunset : SunsetValues, moonset : MoonsetValues,
                              moon_illumination_percentage : IlluminationValues]
        /\ weather_data \in [clouds : Field(CloudValues), humidity : {Absent},
                             wind_speed : {Absent},
                             visibility : Field(VisibilityValues),
                             rain : Field(RainValues)]
     \/ /\ call = "best_times"
        /\ args = NoArgs
        /\ sun_moon_data \in [sunset : {Absent}, moonset : {Str(t) : t \in ClockTimes},
                              moon_illumination_percentage : {Absent}]
        /\ weather_data \in [clouds : Field(Around(29)), humidity : {Absent},
                             wind_speed : {Absent}, visibility : {Absent},
                             rain : {Absent}]
     \/ /\ call = "get_city_info"
        /\ sun_moon_data = NoSunMoon
        /\ weather_data = NoWeather
        /\ args \in [city_name : CityNames]
     \/ /\ call = "find_nearby_cities"
        /\ sun_moon_data = NoSunMoon
        /\ weather_data = NoWeather
        /\ \E p \in QueryPoints, r \in Radii :
             args = [lat |-> p[1], lon |-> p[2], radius_km |-> r]
     \/ /\ call = "get_celestial_events"
        /\ sun_moon_data = NoSunMoon
        /\ weather_data = NoWeather
        /\ args \in [base_date : BaseDates, days_ahead : DaysAhead]

Assess ==
  /\ call = "assess"
  /\ result = Pending
  /\ result' = get_stargazing_weather_assessment(weather_data)
  /\ UNCHANGED <<call, weather_data, sun_moon_data, toolVars, sharedVars, args, appVars>>

BestViewingTimes ==
  /\ call = "best_times"
  /\ result = Pending
  /\ result' = get_best_viewing_times(sun_moon_data, weather_data)
  /\ UNCHANGED <<call, weather_data, sun_moon_data, toolVars, sharedVars, args, appVars>>

CityInfo ==
  /\ call = "get_city_info"
  /\ result = Pending
  /\ result' = get_city_info(args.city_name)
  /\ UNCHANGED <<call, weather_data, sun_moon_data, toolVars, sharedVars, args, appVars>>

FindNearbyCities ==
  /\ call = "find_nearby_cities"
  /\ result = Pending
  /\ result' = find_nearby_cities(args.lat, args.lon, args.radius_km)
  /\ UNCHANGED <<call, weather_data, sun_moon_data, toolVars, sharedVars, args, appVars>>

\* the coordinates only go into the location text
GetCelestialEvents ==
  /\ call = "get_celestial_events"
  /\ result = Pending
  /\ result' = get_celestial_events(args.base_date, 286139, 772090, args.days_ahead)
  /\ UNCHANGED <<call, weather_data, sun_moon_data, toolVars, sharedVars, args, appVars>>

Next == Assess \/ BestViewingTimes \/ CityInfo \/ FindNearbyCities \/ GetCelestialEvents

Spec == Init /\ [][Next]_vars

\* ------------------------------------------------------------------------
\* IndianWeatherService.get_weather_data and its providers
\* ------------------------------------------------------------------------
\* A weather dict: its top-level keys, its "source" and its "current" section.
ErrorDict == [keys |-> {"error"}, source |-> "", current |-> NoWeather]
WeatherDict(source, current) ==
  [keys |-> {"source", "location", "current", "timestamp"},
   source |-> source, current |-> current]

\* weather_data.get("current", {})
CurrentOf(wd) == IF "current" \in wd.keys THEN wd.current ELSE NoWeather

\* _get_mock_weather_data under an overcast sky.
MockWeatherCloudy ==
  WeatherDict("mock", [clouds |-> Num(90), humidity |-> Num(65), wind_speed |-> Num(5),
                       visibility |-> Num(10), rain |-> Num(0)])

_get_mock_weather_data ==
  WeatherDict("mock", [clouds |-> Num(20), humidity |-> Num(65), wind_speed |-> Num(5),
                       visibility |-> Num(10), rain |-> Num(0)])

\* data is the JSON body: is_object says whether data and its
\* locality_weather_data are objects (anything else makes .get raise, which
\* the function's own try/except turns into an error dict).
_format_weather_union_data(data) ==
  IF ~data.is_object THEN ErrorDict
  ELSE LET locality_weather == data.locality_weather_data
       IN WeatherDict("weather_union",
            [humidity |-> Get(locality_weather.humidity, None),
             clouds |-> Get(locality_weather.cloud_cover, Num(0)),
             visibility |-> Get(locality_weather.visibility, Num(10)),
             wind_speed |-> Get(locality_weather.wind_speed, Num(0)),
             rain |-> Get(locality_weather.rain_intensity, Num(0))])

\* outcome: "no_key" (key not configured), "ok" (status 200), "non200",
\* "exception" (the request raised)
_get_weather_union_data(outcome, data) ==
  IF outcome = "no_key" THEN ErrorDict
  ELSE IF outcome = "ok" THEN _format_weather_union_data(data)
  ELSE ErrorDict

\* data.as_indexed says whether data["main"]["temp"], ["humidity"],
\* ["pressure"] and data["weather"]["description"] all exist; a KeyError or
\* TypeError there is caught and gives an error dict.  The visibility comes
\* in metres; v / 1000 < n for a whole n exactly when v \div 1000 < n.
_get_openweather_data(outcome, data) ==
  IF outcome = "no_key" THEN _get_mock_weather_data
  ELSE IF outcome = "ok" THEN
    IF ~data.as_indexed THEN ErrorDict
    ELSE WeatherDict("openweather",
           [humidity |-> data.humidity,
            clouds |-> Get(data.clouds, Num(0)),
            visibility |-> Num(Get(data.visibility, Num(10000)).v \div 1000),
            wind_speed |-> Get(data.wind, Num(0)),
            rain |-> Absent])
  ELSE ErrorDict

\* Usable with every dict accepted.
UsableAlways(wd) == TRUE

\* if weather_data and "error" not in weather_data
Usable(wd) == wd.keys # {} /\ "error" \notin wd.keys

\* Fallback with OpenWeatherMap left out.
FallbackSkipsOpenWeather(provider) ==
  IF provider = "weather_union" THEN "mock" ELSE "mock"

\* The provider get_weather_data turns to when the given one was not usable.
Fallback(provider) ==
  IF provider = "weather_union" THEN "openweather" ELSE "mock"

\* ------------------------------------------------------------------------
\* AstronomyService.get_sun_moon_data
\* ------------------------------------------------------------------------
_get_mock_sun_moon_data ==
  [keys |-> {"location", "astronomy"},
   is_dict |-> TRUE,
   astronomy |-> [sunset |-> Str(HHMM(18, 45)), moonset |-> Str(HHMM(8, 30)),
                  moon_illumination_percentage |-> Str(<<55, 53>>)]]

\* outcome "ok" is status 200: the JSON body is returned as it is
get_sun_moon_data(outcome, body) ==
  IF outcome = "ok" THEN body ELSE _get_mock_sun_moon_data

\* ------------------------------------------------------------------------
\* get_stargazing_forecast (mcp_server.py)
\* ------------------------------------------------------------------------
NotFoundText == "City not found in Indian locations database"
ReportText == "Stargazing Forecast"
ErrorText == "Error generating stargazing forecast"

Returned(text) == [kind |-> "text", text |-> text]

\* Catch with the exception left to the caller.
CatchNothing(where) == [kind |-> "raised", text |-> where]

\* except Exception as e: return the error text
Catch(where) == Returned(ErrorText)

\* After with the language model asked before the viewing times are there.
AfterAsksModelEarly(step) ==
  CASE step = "lookup" -> "weather_union"
    [] step = "weather" -> "assess"
    [] step = "assess" -> "sun_moon"
    [] step = "sun_moon" -> "events"
    [] step = "events" -> "llm"
    [] step = "llm" -> "best_times"
    [] step = "best_times" -> "format"
    [] OTHER -> "done"

\* The statement that follows a completed step of the tool.
After(step) ==
  CASE step = "lookup" -> "weather_union"
    [] step = "weather" -> "assess"
    [] step = "assess" -> "sun_moon"
    [] step = "sun_moon" -> "events"
    [] step = "events" -> "best_times"
    [] step = "best_times" -> "llm"
    [] step = "llm" -> "format"
    [] OTHER -> "done"

Event(ev, out) == [ev |-> ev, out |-> out]

\* What the providers can answer.
Outcomes == {"no_key", "ok", "non200", "exception"}
NoBody == [is_object |-> FALSE, locality_weather_data |-> NoWeather]
WeatherUnionBodies ==
  {NoBody} \cup
  {[is_object |-> TRUE, locality_weather_data |-> l] :
     l \in [humidity : {Absent, Num(95)}, cloud_cover : {Absent, None, Num(90)},
            visibility : {Absent, Num(3)}, wind_speed : {Absent, Num(20)},
            rain_intensity : {Absent, Num(2)}]}
OpenWeatherBodies ==
  [as_indexed : BOOLEAN, humidity : {Num(65), Num(95)}, clouds : {Absent, Num(50)},
   visibility : {Absent, Num(7500)}, wind : {Absent, Num(6)}]
AstroOutcomes == {"ok", "non200", "exception"}
AstroBodies ==
  {[keys |-> {}, is_dict |-> FALSE, astronomy |-> NoSunMoon]} \cup
  {[keys |-> {"location", "astronomy"}, is_dict |-> TRUE, astronomy |-> a] :
     a \in [sunset : {Absent, Str(HHMM(17, 5))},
            moonset : {Absent, Str(HHMM(1, 30)), Str(NoMoonset)},
            moon_illumination_percentage : {Str(<<55, 53>>), Str(<<78, 47, 65>>)}]}

\* City names given to a tool: "Delhi", "Mount Abu", "mumbai", and two that
\* are not in the table, "Atlantis" and " delhi".
ToolCities ==
  {<<68, 101, 108, 104, 105>>, <<77, 111, 117, 110, 116, 32, 65, 98, 117>>,
   <<109, 117, 109, 98, 97, 105>>, <<65, 116, 108, 97, 110, 116, 105, 115>>,
   <<32, 100, 101, 108, 104, 105>>}

ForecastInit ==
  /\ call = "forecast"
  /\ weather_data = NoWeather
  /\ sun_moon_data = NoSunMoon
  /\ result = Pending
  /\ pc = "lookup"
  /\ weather = NoDict
  /\ assessment = Pending
  /\ astro = NoAstro
  /\ viewing = Pending
  /\ log = <<>>
  /\ NoCallers
  /\ AppIdle
  /\ args \in [city : ToolCities]

argVars == <<call, weather_data, sun_moon_data, sharedVars, args, appVars>>

\* The tools of mcp_server.py that take a city, the message of each when
\* the city is not in the table, the message of its except clause, and the
\* statement after its lookup.
CityTools == {"forecast", "find_celestial_object", "get_upcoming_events",
              "suggest_stargazing_locations"}

NotFound(tool) ==
  CASE tool = "forecast" -> NotFoundText
    [] tool = "find_celestial_object" -> "City not found. Available cities"
    [] tool = "get_upcoming_events" -> "City not found. Try"
    [] OTHER -> "City not found in database"

ErrorOf(tool) ==
  CASE tool = "forecast" -> ErrorText
    [] tool = "find_celestial_object" -> "Error finding celestial object"
    [] tool = "get_upcoming_events" -> "Error getting upcoming events"
    [] OTHER -> "Error suggesting locations"

FirstStep(tool) ==
  CASE tool = "forecast" -> After("lookup")
    [] tool = "find_celestial_object" -> "object_sun_moon"
    [] tool = "get_upcoming_events" -> "calendar_events"
    [] OTHER -> "suggest_llm"

\* Found with every answer of the lookup taken as a city.
FoundAlways(city_info) == TRUE

\* `if not city_info` is not taken: None is false, an entry of the table is
\* a dict with keys and true
Found(city_info) == city_info.k # "none"

\* city_info = get_city_info(city); if not city_info: return ...;
\* lat, lon = city_info['lat'], city_info['lon'] (subscripting None raises)
Lookup ==
  /\ pc = "lookup"
  /\ LET city_info == get_city_info(args.city)
     IN IF ~Found(city_info)
        THEN /\ pc' = "done"
             /\ result' = Returned(NotFound(call))
        ELSE IF city_info.k # "dict"
        THEN /\ pc' = "done"
             /\ result' = Returned(ErrorOf(call))
        ELSE /\ pc' = FirstStep(call)
             /\ UNCHANGED result
  /\ UNCHANGED <<argVars, weather, assessment, astro, viewing, log>>

\* get_weather_data: weather_data = await self._get_weather_union_data(...)
WeatherUnion ==
  /\ pc = "weather_union"
  /\ \E outcome \in Outcomes, data \in WeatherUnionBodies :
       /\ outcome # "ok" => data = NoBody
       /\ LET r == _get_weather_union_data(outcome, data)
          IN /\ log' = Append(log, Event("weather_union", IF Usable(r) THEN "ok" ELSE "error"))
             /\ IF Usable(r)
                THEN weather' = r /\ pc' = After("weather")
                ELSE weather' = weather /\ pc' = Fallback("weather_union")
  /\ UNCHANGED <<argVars, result, assessment, astro, viewing>>

\* get_weather_data: weather_data = await self._get_openweather_data(...)
OpenWeather ==
  /\ pc = "openweather"
  /\ \E outcome \in Outcomes, data \in OpenWeatherBodies :
       /\ outcome # "ok" => data = CHOOSE d \in OpenWeatherBodies : TRUE
       /\ LET r == _get_openweather_data(outcome, data)
          IN /\ log' = log \o
                  <<Event("openweather",
                          IF outcome = "no_key" THEN "no_key"
                          ELSE IF Usable(r) THEN "ok" ELSE "error")>> \o
                  (IF r.source = "mock" THEN <<Event("mock", "ok")>> ELSE <<>>)
             /\ IF Usable(r)
                THEN weather' = r /\ pc' = After("weather")
                ELSE weather' = weather /\ pc' = Fallback("openweather")
  /\ UNCHANGED <<argVars, result, assessment, astro, viewing>>

\* get_weather_data: return self._get_mock_weather_data(city)
MockWeather ==
  /\ pc = "mock"
  /\ weather' = _get_mock_weather_data
  /\ log' = Append(log, Event("mock", "ok"))
  /\ pc' = After("weather")
  /\ UNCHANGED <<argVars, result, assessment, astro, viewing>>

\* weather_assessment = weather_service.get_stargazing_weather_assessment(weather_data)
ToolAssess ==
  /\ pc = "assess"
  /\ assessment' = get_stargazing_weather_assessment(CurrentOf(weather))
  /\ log' = Append(log, Event("assess", assessment'.kind))
  /\ pc' = After("assess")
  /\ UNCHANGED <<argVars, result, weather, astro, viewing>>

\* sun_moon_data = await astro_service.get_sun_moon_data(lat, lon)
SunMoon ==
  /\ pc = "sun_moon"
  /\ \E outcome \in AstroOutcomes, body \in AstroBodies :
       /\ outcome # "ok" => body = CHOOSE b \in AstroBodies : TRUE
       /\ astro' = get_sun_moon_data(outcome, body)
       /\ log' = Append(log, Event("sun_moon", outcome))
  /\ pc' = After("sun_moon")
  /\ UNCHANGED <<argVars, result, weather, assessment, viewing>>

\* celestial_events = await astro_service.get_celestial_events(lat, lon, days_ahead)
CelestialEvents ==
  /\ pc = "events"
  /\ log' = Append(log, Event("events", "ok"))
  /\ pc' = After("events")
  /\ UNCHANGED <<argVars, result, weather, assessment, astro, viewing>>

\* viewing_times = await astro_service.get_best_viewing_times(sun_moon_data, weather_data)
\* (sun_moon_data.get on a body that is not a dict raises inside its try)
ToolBestTimes ==
  /\ pc = "best_times"
  /\ viewing' = IF astro.is_dict
                THEN get_best_viewing_times(astro.astronomy, CurrentOf(weather))
                ELSE ErrorResult
  /\ log' = Append(log, Event("best_times", viewing'.kind))
  /\ pc' = After("best_times")
  /\ UNCHANGED <<argVars, result, weather, assessment, astro>>

\* the prompt is built (sun_moon_data.get raises on a body that is not a
\* dict) and client.chat.completions.create is called
LanguageModel ==
  /\ pc = "llm"
  /\ IF ~astro.is_dict
     THEN /\ result' = Catch("prompt")
          /\ pc' = "done"
          /\ UNCHANGED log
     ELSE \E outcome \in {"ok", "exception"} :
            /\ log' = Append(log, Event("llm", outcome))
            /\ IF outcome = "ok"
               THEN pc' = After("llm") /\ UNCHANGED result
               ELSE pc' = "done" /\ result' = Catch("llm")
  /\ UNCHANGED <<argVars, weather, assessment, astro, viewing>>

\* FormatReport with the error of the assessment reported to the caller.
FormatReportPropagatesError ==
  /\ pc = "format"
  /\ result' = IF assessment.kind = "ok"
               THEN [kind |-> "text", text |-> ReportText,
                     rating |-> assessment.rating, score |-> assessment.score,
                     windows |-> IF viewing.kind = "ok" THEN Len(viewing.viewing_times) ELSE 0]
               ELSE Returned(ErrorText)
  /\ pc' = "done"
  /\ UNCHANGED <<argVars, weather, assessment, astro, viewing, log>>

\* the report is formatted and returned; a dict without the key shows the
\* default of its .get
FormatReport ==
  /\ pc = "format"
  /\ result' = [kind |-> "text", text |-> ReportText,
                rating |-> IF assessment.kind = "ok" THEN assessment.rating ELSE "Good",
                score |-> IF assessment.kind = "ok" THEN assessment.score ELSE 75,
                windows |-> IF viewing.kind = "ok" THEN Len(viewing.viewing_times) ELSE 0]
  /\ pc' = "done"
  /\ UNCHANGED <<argVars, weather, assessment, astro, viewing, log>>

ForecastNext ==
  \/ Lookup \/ WeatherUnion \/ OpenWeather \/ MockWeather \/ ToolAssess
  \/ SunMoon \/ CelestialEvents \/ ToolBestTimes \/ LanguageModel \/ FormatReport

ForecastSpec == ForecastInit /\ [][ForecastNext]_vars

\* ------------------------------------------------------------------------
\* find_celestial_object, get_upcoming_events, suggest_stargazing_locations
\* (mcp_server.py)
\* ------------------------------------------------------------------------
\* the entry of the city the tool was called with, once the lookup found it
CityInfoOf(city) == get_city_info(city).d

\* response = client.chat.completions.create(...): an answer or an exception
AskModel(next) ==
  \E outcome \in {"ok", "exception"} :
    /\ log' = Append(log, Event("llm", outcome))
    /\ IF outcome = "ok"
       THEN pc' = next /\ UNCHANGED result
       ELSE pc' = "done" /\ result' = Returned(ErrorOf(call))

\* find_celestial_object: sun_moon_data = await astro_service.get_sun_moon_data(lat, lon)
ObjectSunMoon ==
  /\ pc = "object_sun_moon"
  /\ \E outcome \in AstroOutcomes, body \in AstroBodies :
       /\ outcome # "ok" => body = CHOOSE b \in AstroBodies : TRUE
       /\ astro' = get_sun_moon_data(outcome, body)
       /\ log' = Append(log, Event("sun_moon", outcome))
  /\ pc' = "object_planets"
  /\ UNCHANGED <<argVars, result, weather, assessment, viewing>>

\* planetary_data = await astro_service.get_planetary_positions(): a fixed
\* dict, nothing is fetched
PlanetaryPositions ==
  /\ pc = "object_planets"
  /\ log' = Append(log, Event("planets", "ok"))
  /\ pc' = "object_llm"
  /\ UNCHANGED <<argVars, result, weather, assessment, astro, viewing>>

\* the prompt is built (sun_moon_data.get raises on a body that is not a
\* dict) and the language model is asked
ObjectLanguageModel ==
  /\ pc = "object_llm"
  /\ IF ~astro.is_dict
     THEN /\ result' = Returned(ErrorOf(call))
          /\ pc' = "done"
          /\ UNCHANGED log
     ELSE AskModel("object_report")
  /\ UNCHANGED <<argVars, weather, assessment, astro, viewing>>

\* the guide is formatted:
\* float(....get('moon_illumination_percentage', '50').replace('%', '')) < 30
ObjectReport ==
  /\ pc = "object_report"
  /\ LET moon == Get(astro.astronomy.moon_illumination_percentage, Str(<<53, 48>>))
         f == ParseFloat(SelectSeq(moon.s, LAMBDA c : c # 37))
     IN result' = IF moon.k # "str" \/ ~f.ok
                  THEN Returned(ErrorOf(call))
                  ELSE [kind |-> "text", text |-> "Celestial Object Guide",
                        dark_sky |-> f.num < 30 * Pow10(f.scale)]
  /\ pc' = "done"
  /\ UNCHANGED <<argVars, weather, assessment, astro, viewing, log>>

\* get_upcoming_events: events_data = await astro_service.get_celestial_events(...)
CalendarEvents ==
  /\ pc = "calendar_events"
  /\ log' = Append(log, Event("events", "ok"))
  /\ pc' = "calendar_llm"
  /\ UNCHANGED <<argVars, result, weather, assessment, astro, viewing>>

CalendarLanguageModel ==
  /\ pc = "calendar_llm"
  /\ AskModel("calendar_report")
  /\ UNCHANGED <<argVars, weather, assessment, astro, viewing>>

\* the calendar is formatted; format_events lists events[:5]
CalendarReport ==
  /\ pc = "calendar_report"
  /\ LET city_info == CityInfoOf(args.city)
         events_data == get_celestial_events(args.base_date, city_info.lat, city_info.lon,
                                             args.days_ahead)
     IN result' = [kind |-> "text", text |-> "Astronomical Events Calendar",
                   events |-> SubSeq(events_data.events, 1, Min(5, Len(events_data.events)))]
  /\ pc' = "done"
  /\ UNCHANGED <<argVars, weather, assessment, astro, viewing, log>>

SuggestLanguageModel ==
  /\ pc = "suggest_llm"
  /\ AskModel("suggest_report")
  /\ UNCHANGED <<argVars, weather, assessment, astro, viewing>>

\* for city_name, info, distance in nearby_cities[:5]: if distance > 10: ...
NearbyInfo(nearby_cities) ==
  LET first == SubSeq(nearby_cities, 1, Min(5, Len(nearby_cities)))
      listed == SelectSeq(first, LAMBDA c : c[3] > 10)
  IN [i \in 1..Len(listed) |-> [city_name |-> listed[i][1], distance |-> listed[i][3]]]

\* nearby_cities = find_nearby_cities(lat, lon, radius_km), and the report
SuggestReport ==
  /\ pc = "suggest_report"
  /\ LET city_info == CityInfoOf(args.city)
         nearby_cities == find_nearby_cities(city_info.lat, city_info.lon, args.radius_km)
     IN /\ log' = Append(log, Event("nearby", nearby_cities.kind))
        /\ result' = IF nearby_cities.kind = "raised"
                     THEN Returned(ErrorOf(call))
                     ELSE [kind |-> "text", text |-> "Best Stargazing Locations",
                           nearby_info |-> NearbyInfo(nearby_cities.cities)]
  /\ pc' = "done"
  /\ UNCHANGED <<argVars, weather, assessment, astro, viewing>>

\* One call of a tool that takes a city.
ToolRadii == {-1, 0, 10, 100, 700}
ToolArgs(tool) ==
  CASE tool = "get_upcoming_events" ->
         [city : ToolCities, days_ahead : {14},
          base_date : {[year |-> 2024, month |-> 2, day |-> 27]}]
    [] tool = "suggest_stargazing_locations" -> [city : ToolCities, radius_km : ToolRadii]
    [] OTHER -> [city : ToolCities]

ToolsInit ==
  /\ call \in CityTools
  /\ args \in ToolArgs(call)
  /\ weather_data = NoWeather
  /\ sun_moon_data = NoSunMoon
  /\ result = Pending
  /\ pc = "lookup"
  /\ weather = NoDict
  /\ assessment = Pending
  /\ astro = NoAstro
  /\ viewing = Pending
  /\ log = <<>>
  /\ NoCallers
  /\ AppIdle

ToolsNext ==
  \/ ForecastNext
  \/ ObjectSunMoon \/ PlanetaryPositions \/ ObjectLanguageModel \/ ObjectReport
  \/ CalendarEvents \/ CalendarLanguageModel \/ CalendarReport
  \/ SuggestLanguageModel \/ SuggestReport

ToolsSpec == ToolsInit /\ [][ToolsNext]_vars

\* ------------------------------------------------------------------------
\* keep_server_alive.ping_server (app.py): the keep-alive thread
\* ------------------------------------------------------------------------
max_failures == 3

\* What requests.post can answer with; it can also raise.
StatusCodes == {200, 202, 404, 500}

\* A line printed by the loop, with the value of consecutive_failures at
\* the print.
Line(out, status, failures) == [out |-> out, status |-> status, failures |-> failures]

KeepAliveInit ==
  /\ call = "keep_alive"
  /\ weather_data = NoWeather
  /\ sun_moon_data = NoSunMoon
  /\ result = Pending
  /\ args = NoArgs
  /\ ToolIdle
  /\ NoCallers
  /\ served = <<>>
  /\ loop_pc = "sleep"
  /\ consecutive_failures = 0
  /\ response = NoResponse
  /\ printed = <<>>
  /\ iterations = 0

loopRest == <<call, weather_data, sun_moon_data, result, toolVars, sharedVars, args, served>>

\* while True: try: time.sleep(600)
Sleep ==
  /\ loop_pc = "sleep"
  /\ iterations < MaxIterations
  /\ iterations' = iterations + 1
  /\ loop_pc' = "post"
  /\ UNCHANGED <<consecutive_failures, response, printed, loopRest>>

\* response = requests.post(..., timeout=30): a response, or an exception
Post ==
  /\ loop_pc = "post"
  /\ \/ /\ \E status \in StatusCodes : response' = [status_code |-> status]
        /\ loop_pc' = "check"
     \/ /\ loop_pc' = "except"
        /\ UNCHANGED response
  /\ UNCHANGED <<consecutive_failures, printed, iterations, loopRest>>

\* if response.status_code in [200, 202]: ... else: ...
CheckStatus ==
  /\ loop_pc = "check"
  /\ IF response.status_code \in {200, 202}
     THEN /\ printed' = Append(printed, Line("SUCCESS", response.status_code,
                                             consecutive_failures))
          /\ consecutive_failures' = 0
     ELSE /\ consecutive_failures' = consecutive_failures + 1
          /\ printed' = Append(printed, Line("WARNING", response.status_code,
                                             consecutive_failures + 1))
  /\ loop_pc' = "failures"
  /\ UNCHANGED <<response, iterations, loopRest>>

\* TooManyFailures with the alarm one failure later.
TooManyFailuresAbove(failures) == failures > max_failures

\* consecutive_failures >= max_failures
TooManyFailures(failures) == failures >= max_failures

\* if consecutive_failures >= max_failures: print the alarm and reset
CheckFailures ==
  /\ loop_pc = "failures"
  /\ IF TooManyFailures(consecutive_failures)
     THEN /\ printed' = Append(printed, Line("ALARM", response.status_code,
                                             consecutive_failures))
          /\ consecutive_failures' = 0
     ELSE UNCHANGED <<printed, consecutive_failures>>
  /\ loop_pc' = "sleep"
  /\ UNCHANGED <<response, iterations, loopRest>>

\* Except with the exception counted as a failure.
ExceptCountsFailure ==
  /\ loop_pc = "except"
  /\ consecutive_failures' = consecutive_failures + 1
  /\ printed' = Append(printed, Line("EXCEPTION", 0, consecutive_failures + 1))
  /\ loop_pc' = "failures"
  /\ UNCHANGED <<response, iterations, loopRest>>

\* except Exception as e: print, time.sleep(60), and on to the next iteration
Except ==
  /\ loop_pc = "except"
  /\ printed' = Append(printed, Line("EXCEPTION", 0, consecutive_failures))
  /\ loop_pc' = "sleep"
  /\ UNCHANGED <<consecutive_failures, response, iterations, loopRest>>

KeepAliveNext == Sleep \/ Post \/ CheckStatus \/ CheckFailures \/ Except

KeepAliveSpec == KeepAliveInit /\ [][KeepAliveNext]_vars

\* ------------------------------------------------------------------------
\* The tools without arguments of minimal_server.py and working_server.py
\* ------------------------------------------------------------------------
\* working_server.py: `from auth import get_my_number` fails, there is no
\* module auth, and the except branch defines get_my_number
get_my_number == "918920560661"

\* validate with the country code left out.
validate_without_country_code(server) == "8920560661"

\* async def validate() of either server
validate(server) ==
  IF server = "minimal_server" THEN "918920560661" ELSE get_my_number

Tools(server) ==
  IF server = "minimal_server" THEN {"health", "validate"}
  ELSE {"validate", "about", "help"}

ServerInit ==
  /\ call \in {"minimal_server", "working_server"}
  /\ weather_data = NoWeather
  /\ sun_moon_data = NoSunMoon
  /\ result = Pending
  /\ args = NoArgs
  /\ ToolIdle
  /\ NoCallers
  /\ AppIdle

\* the server answers a call of tool with text
Answer(tool, text) ==
  /\ tool \in Tools(call)
  /\ Len(served) < MaxRequests
  /\ served' = Append(served, [tool |-> tool, returned |-> text])
  /\ UNCHANGED <<call, weather_data, sun_moon_data, result, toolVars, sharedVars, args,
                 loopVars>>

Validate == Answer("validate", validate(call))
Health == Answer("health", "Server is running!")
About == Answer("about", "Astro-Weather Stargazing Guide")
Help == Answer("help", "Astro-Weather Stargazing Guide - India")

ServerNext == Validate \/ Health \/ About \/ Help

ServerSpec == ServerInit /\ [][ServerNext]_vars

\* ------------------------------------------------------------------------
\* Callers sharing weather_service and astro_service (mcp_server.py:30-32).
\* Each call runs statement by statement, and the statements of different
\* calls interleave in any order.
\* ------------------------------------------------------------------------
\* Frame with the locals kept in one place for all calls.
FrameShared(c) == 1

\* Where the local variables of caller c's running call live: in the frame
\* of that call (score, rating, best_times, ... are locals, not attributes
\* of self).
Frame(c) == c

Running(c) == callers[c].pc \notin {"idle", "done"}

\* A caller taking a step while another call is under way.
Interleaves(c) == overlap \/ \E d \in 1..NumCallers : d # c /\ Running(d)

SharedReadings ==
  {NoWeather,
   [NoWeather EXCEPT !.clouds = Num(90), !.rain = Num(2)],
   [NoWeather EXCEPT !.clouds = Num(20), !.humidity = None]}
SharedAstronomy ==
  {NoSunMoon, [NoSunMoon EXCEPT !.moonset = Str(HHMM(1, 30))]}

SharedInit ==
  /\ call = "shared"
  /\ weather_data = NoWeather
  /\ sun_moon_data = NoSunMoon
  /\ result = Pending
  /\ ToolIdle
  /\ NoCallers
  /\ AppIdle
  /\ args = NoArgs

restVars == <<call, weather_data, sun_moon_data, result, toolVars, services, args, appVars>>

\* caller c moves to statement p with its locals changed to l
Goto(c, p, l) ==
  /\ callers' = [callers EXCEPT ![c].pc = p]
  /\ frames' = [frames EXCEPT ![Frame(c)] = l]
  /\ overlap' = Interleaves(c)
  /\ UNCHANGED <<started, restVars>>

\* caller c's call returns r
Return(c, r) ==
  /\ callers' = [callers EXCEPT ![c].pc = "done", ![c].result = r]
  /\ overlap' = Interleaves(c)
  /\ UNCHANGED <<frames, started, restVars>>

\* a caller invokes one of the two operations; the call gets fresh locals
CallService(c) ==
  /\ ~Running(c)
  /\ started < MaxCalls
  /\ \E op \in {"assess", "best_times"}, wd \in SharedReadings, smd \in SharedAstronomy :
       /\ op = "assess" => smd = NoSunMoon
       /\ callers' = [callers EXCEPT ![c] = [pc |-> op, op |-> op, wd |-> wd, smd |-> smd,
                                             result |-> Pending]]
  /\ frames' = [frames EXCEPT ![Frame(c)] = NoLocals]
  /\ started' = started + 1
  /\ overlap' = Interleaves(c)
  /\ UNCHANGED restVars

\* current = weather_data.get("current", {}) ... score = 100
AssessRead(c) ==
  /\ callers[c].pc = "assess"
  /\ Goto(c, "clouds",
          [frames[Frame(c)] EXCEPT !.current = ReadCurrent(callers[c].wd), !.score = 100])

WeatherFieldOrder == {"clouds", "humidity", "rain", "visibility", "wind_speed"}

ImpactOf(field, score, v) ==
  CASE field = "clouds" -> CloudImpact(score, v)
    [] field = "humidity" -> HumidityImpact(score, v)
    [] field = "rain" -> RainImpact(score, v)
    [] field = "visibility" -> VisibilityImpact(score, v)
    [] field = "wind_speed" -> WindImpact(score, v)

AfterImpact(field) ==
  CASE field = "clouds" -> "humidity"
    [] field = "humidity" -> "rain"
    [] field = "rain" -> "visibility"
    [] field = "visibility" -> "wind_speed"
    [] field = "wind_speed" -> "rate"

\* one of the five if/elif blocks on score; None in the comparison raises
\* and the call returns the error dict
AssessImpact(c) ==
  LET l == frames[Frame(c)]
      field == callers[c].pc
  IN /\ field \in WeatherFieldOrder
     /\ IF l.current[field].k # "num"
        THEN Return(c, ErrorResult)
        ELSE Goto(c, AfterImpact(field),
                  [l EXCEPT !.score = ImpactOf(field, l.score, l.current[field].v)])

\* if score >= 80: rating = ...; emoji = ...
AssessRate(c) ==
  LET l == frames[Frame(c)]
  IN /\ callers[c].pc = "rate"
     /\ Goto(c, "assess_return",
             [l EXCEPT !.rating = DetermineRating(l.score).rating,
                       !.emoji = DetermineRating(l.score).emoji])

\* return {"score": max(0, min(100, score)), ...}
AssessReturn(c) ==
  LET l == frames[Frame(c)]
  IN /\ callers[c].pc = "assess_return"
     /\ Return(c, [kind |-> "ok",
                   score |-> ClampScore(l.score),
                   rating |-> l.rating,
                   emoji |-> l.emoji,
                   precipitation |-> IF l.current.rain.v > 0 THEN "Yes" ELSE "No",
                   recommendation |-> _get_weather_recommendation(l.score)])

\* sunset, moonset, cloud_cover and visibility are read
SelectRead(c) ==
  /\ callers[c].pc = "best_times"
  /\ Goto(c, "quality",
          [frames[Frame(c)] EXCEPT !.times = ReadTimes(callers[c].smd),
                                   !.cloud_cover = Get(callers[c].wd.clouds, Num(50)),
                                   !.visibility = Get(callers[c].wd.visibility, Num(10))])

\* viewing_quality = "Excellent"; if cloud_cover > 70: ...
SelectQuality(c) ==
  LET l == frames[Frame(c)]
  IN /\ callers[c].pc = "quality"
     /\ IF l.cloud_cover.k # "num"
        THEN Return(c, ErrorResult)
        ELSE Goto(c, "evening", [l EXCEPT !.viewing_quality = ViewingQuality(l.cloud_cover.v)])

\* best_times = []; best_times.append({"period": "Evening", ...})
SelectEvening(c) ==
  LET l == frames[Frame(c)]
  IN /\ callers[c].pc = "evening"
     /\ Goto(c, "late_night",
             [l EXCEPT !.best_times = <<EveningWindow(l.times.sunset, l.viewing_quality)>>])

\* if moonset and moonset < "02:00": best_times.append({"period": "Late Night", ...})
SelectLateNight(c) ==
  LET l == frames[Frame(c)]
  IN /\ callers[c].pc = "late_night"
     /\ IF Truthy(l.times.moonset) /\ l.times.moonset.k # "str"
        THEN Return(c, ErrorResult)
        ELSE IF MoonSetsEarly(l.times.moonset)
        THEN Goto(c, "best_times_return",
                  [l EXCEPT !.best_times =
                     Append(l.best_times,
                            LateNightWindow(l.times.moonset, l.cloud_cover.v,
                                            l.viewing_quality))])
        ELSE Goto(c, "best_times_return", l)

\* return {"viewing_times": best_times, "conditions": ..., "tips": ...}
SelectReturn(c) ==
  LET l == frames[Frame(c)]
      tips == _get_viewing_tips(l.viewing_quality, callers[c].smd)
  IN /\ callers[c].pc = "best_times_return"
     /\ Return(c, IF tips.raised THEN ErrorResult
                  ELSE [kind |-> "ok",
                        viewing_times |-> l.best_times,
                        conditions |-> [cloud_cover |-> l.cloud_cover,
                                        visibility |-> l.visibility,
                                        overall_quality |-> l.viewing_quality],
                        tips |-> tips.tips])

SharedNext ==
  \E c \in 1..NumCallers :
    \/ CallService(c)
    \/ AssessRead(c) \/ AssessImpact(c) \/ AssessRate(c) \/ AssessReturn(c)
    \/ SelectRead(c) \/ SelectQuality(c) \/ SelectEvening(c) \/ SelectLateNight(c)
    \/ SelectReturn(c)

SharedSpec == SharedInit /\ [][SharedNext]_vars

\* ------------------------------------------------------------------------
\* Properties
\* ------------------------------------------------------------------------
Assessed == call = "assess" /\ result # Pending
Selected == call = "best_times" /\ result # Pending

WeatherFields == {"clouds", "humidity", "wind_speed", "visibility", "rain"}

\* every field of the reading is absent or an integer
NumericOrAbsent(wd) == \A f \in WeatherFields : wd[f].k \in {"absent", "num"}
AllPresent(wd) == \A f \in WeatherFields : wd[f].k = "num"

\* the reading with every absent (and, with noneToo, every None) field
\* replaced by the documented default
Documented == [clouds |-> 50, humidity |-> 60, wind_speed |-> 5, visibility |-> 10, rain |-> 0]
Filled(wd, noneToo) ==
  [f \in WeatherFields |->
     IF wd[f].k = "absent" \/ (noneToo /\ wd[f].k = "none") THEN Num(Documented[f]) ELSE wd[f]]

\* the bracket table of the specification, one bracket per factor
CloudPenalty(c) == IF c > 80 THEN 50 ELSE IF c > 60 THEN 30 ELSE IF c > 40 THEN 20
                   ELSE IF c > 20 THEN 10 ELSE 0
HumidityPenalty(h) == IF h > 90 THEN 15 ELSE IF h > 80 THEN 10 ELSE IF h > 70 THEN 5 ELSE 0
RainPenalty(r) == IF r > 0 THEN 40 ELSE 0
VisibilityPenalty(v) == IF v < 5 THEN 20 ELSE IF v < 8 THEN 10 ELSE 0
WindAdjust(w) == IF w > 15 THEN -10 ELSE IF w >= 5 THEN 5 ELSE 0
Unclamped(wd) ==
  100 - CloudPenalty(wd.clouds.v) - HumidityPenalty(wd.humidity.v) - RainPenalty(wd.rain.v)
      - VisibilityPenalty(wd.visibility.v) + WindAdjust(wd.wind_speed.v)
Clamp(x) == IF x < 0 THEN 0 ELSE IF x > 100 THEN 100 ELSE x
RatingOfScore(x) == IF x >= 80 THEN "Excellent" ELSE IF x >= 65 THEN "Good"
                    ELSE IF x >= 45 THEN "Fair" ELSE "Poor"

\* C1: for every reading whose fields are absent or integers, the assessor
\* returns a score that is an integer between 0 and 100.
C1_ScoreInRange ==
  (Assessed /\ NumericOrAbsent(weather_data)) =>
    (result.kind = "ok" /\ result.score \in 0..100)

\* a reading whose penalties sum below zero was assessed with score 0
C1_Witness ==
  /\ Assessed /\ AllPresent(weather_data)
  /\ Unclamped(weather_data) < 0
  /\ result.kind = "ok" /\ result.score = 0

\* C2: for every numeric reading the score is the clamped sum of 100 and
\* the one bracket that applies per factor.
C2_ScoreIsClampedBracketSum ==
  (Assessed /\ AllPresent(weather_data)) =>
    (result.kind = "ok" /\ result.score = Clamp(Unclamped(weather_data)))

\* a reading at the inclusive wind bound 5 with a penalty of every other
\* kind except rain, and a score the clamp leaves alone
C2_Witness ==
  /\ Assessed /\ AllPresent(weather_data)
  /\ weather_data.wind_speed.v = 5
  /\ CloudPenalty(weather_data.clouds.v) > 0
  /\ HumidityPenalty(weather_data.humidity.v) > 0
  /\ VisibilityPenalty(weather_data.visibility.v) > 0
  /\ result.kind = "ok" /\ result.score \in 1..99

\* C3: the rating returned is the one the thresholds give for the clamped
\* score returned with it (>= 80 Excellent, >= 65 Good, >= 45 Fair, else Poor).
C3_RatingMatchesReturnedScore ==
  (Assessed /\ result.kind = "ok") => result.rating = RatingOfScore(result.score)

\* a reading whose sum is exactly 80 was rated Excellent
C3_Witness ==
  /\ Assessed /\ AllPresent(weather_data)
  /\ Unclamped(weather_data) = 80
  /\ result.kind = "ok" /\ result.score = 80 /\ result.rating = "Excellent"

\* C4: a reading with absent fields gets the score and rating of the reading
\* with the defaults filled in (clouds 50, humidity 60, wind 5, visibility 10,
\* rain 0), and no error result.
C4_AbsentFieldsTakeDefaults ==
  (Assessed /\ NumericOrAbsent(weather_data) /\ ~AllPresent(weather_data)) =>
    LET full == get_stargazing_weather_assessment(Filled(weather_data, FALSE))
    IN /\ result.kind = "ok"
       /\ full.kind = "ok"
       /\ result.score = full.score
       /\ result.rating = full.rating

\* the empty reading was assessed as 100 - 20 + 5 = 85, Excellent
C4_Witness ==
  /\ Assessed
  /\ weather_data = NoWeather
  /\ result.kind = "ok" /\ result.score = 85 /\ result.rating = "Excellent"

\* C5: a field present with value None falls back to its default, and the
\* assessor returns a score and a rating, not an error result.
C5_NoneFallsBackToDefault ==
  (Assessed /\ \E f \in WeatherFields : weather_data[f].k = "none") =>
    /\ result.kind = "ok"
    /\ result = get_stargazing_weather_assessment(Filled(weather_data, TRUE))

\* the astronomy reading holds text (or nothing) where text is expected,
\* and the reading a number (or nothing) for the cloud cover
IsNumberText(x) == x.k = "str" /\ ParseFloat(SelectSeq(x.s, LAMBDA c : c # 37)).ok
WellTyped(smd, wd) ==
  /\ wd.clouds.k \in {"absent", "num"}
  /\ smd.sunset.k \in {"absent", "str"}
  /\ smd.moonset.k \in {"absent", "none", "str"}
  /\ smd.moon_illumination_percentage.k = "absent"
       \/ IsNumberText(smd.moon_illumination_percentage)

\* lexicographic order on code points: a is a proper prefix of b, or the
\* first position where they differ holds the smaller code point in a
LexLess(a, b) ==
  \E i \in 1..Len(b) :
    /\ \A j \in 1..(i - 1) : j <= Len(a) /\ a[j] = b[j]
    /\ i > Len(a) \/ a[i] < b[i]

\* the cloud cover the selector works with, and the quality it gives
CloudCoverOf(wd) == IF wd.clouds.k = "absent" THEN 50 ELSE wd.clouds.v
CloudQuality(c) == IF c > 70 THEN "Poor" ELSE IF c > 40 THEN "Fair"
                   ELSE IF c > 20 THEN "Good" ELSE "Excellent"

HasLateNight(r) == \E i \in 1..Len(r.viewing_times) : r.viewing_times[i].period = "Late Night"

C7_EveningQualityIsAssessorRating ==
  (Selected /\ result.kind = "ok") =>
    LET a == get_stargazing_weather_assessment(weather_data)
    IN a.kind = "ok" => result.viewing_times[1].quality = a.rating

\* C7 as amended: whenever the selector returns windows, the Evening
\* window's quality is decided by cloud cover alone (default 50): above 70
\* Poor, above 40 Fair, above 20 Good, otherwise Excellent.
C7_EveningQualityFromCloudCover ==
  (Selected /\ result.kind = "ok") =>
    result.viewing_times[1].quality = CloudQuality(CloudCoverOf(weather_data))

\* rain under a clear sky: the assessor says Good or worse, the Evening
\* window says Excellent
C7_Witness ==
  /\ Selected /\ result.kind = "ok"
  /\ weather_data.rain.k = "num" /\ weather_data.rain.v > 0
  /\ get_stargazing_weather_assessment(weather_data).rating # "Excellent"
  /\ result.viewing_times[1].quality = "Excellent"

\* C8: a Late Night window is emitted exactly when the moonset (absent:
\* "23:30") is a non-empty string that sorts before "02:00"; it runs from the
\* moonset to "04:00" and is Excellent below 30 cloud cover, else it has the
\* Evening window's quality.
C8_LateNightRule ==
  (Selected /\ result.kind = "ok") =>
    LET moonset == IF sun_moon_data.moonset.k = "absent" THEN Str(<<50, 51, 58, 51, 48>>)
                   ELSE sun_moon_data.moonset
        w == result.viewing_times
    IN /\ HasLateNight(result) <=>
            (moonset.k = "str" /\ moonset.s # <<>> /\ LexLess(moonset.s, <<48, 50, 58, 48, 48>>))
       /\ HasLateNight(result) =>
            /\ Len(w) = 2
            /\ w[2].period = "Late Night"
            /\ w[2].start_time = moonset
            /\ w[2].end_time = <<48, 52, 58, 48, 48>>
            /\ w[2].quality = (IF CloudCoverOf(weather_data) < 30 THEN "Excellent"
                               ELSE w[1].quality)

\* moonset "01:30" under cloud cover 30: a Late Night window that is not
\* upgraded
C8_Witness ==
  /\ Selected /\ result.kind = "ok"
  /\ CloudCoverOf(weather_data) = 30
  /\ Len(result.viewing_times) = 2
  /\ result.viewing_times[2].start_time = Str(HHMM(1, 30))
  /\ result.viewing_times[2].quality = "Good"

\* C9: a successful result holds one or two windows, Evening first, a Late
\* Night window only second, and no other period.
C9_WindowShape ==
  (Selected /\ result.kind = "ok") =>
    LET w == result.viewing_times
    IN /\ Len(w) \in {1, 2}
       /\ w[1].period = "Evening"
       /\ \A i \in 1..Len(w) : w[i].period \in {"Evening", "Late Night"}
       /\ \A i \in 1..Len(w) : w[i].period = "Late Night" => i = 2
       /\ \A i \in 1..Len(w) : w[i].period = "Evening" => i = 1

\* the provider's "-:-" for a night without moonset gives two windows
C9_Witness ==
  /\ Selected /\ result.kind = "ok"
  /\ sun_moon_data.moonset = Str(NoMoonset)
  /\ Len(result.viewing_times) = 2
  /\ result.viewing_times[2].period = "Late Night"

\* a zero-padded 24-hour "HH:MM", and the minutes since midnight it names
IsClockTime(t) ==
  /\ Len(t) = 5
  /\ t[3] = 58
  /\ \A i \in {1, 2, 4, 5} : t[i] \in 48..57
  /\ 10 * (t[1] - 48) + (t[2] - 48) <= 23
  /\ 10 * (t[4] - 48) + (t[5] - 48) <= 59
MinutesOf(t) == 60 * (10 * (t[1] - 48) + (t[2] - 48)) + 10 * (t[4] - 48) + (t[5] - 48)

\* C10: for a zero-padded 24-hour moonset the Late Night window is emitted
\* exactly when the moonset is earlier than 02:00 as a time of day.
C10_ClockOrderAgrees ==
  (Selected /\ result.kind = "ok" /\ sun_moon_data.moonset.k = "str"
     /\ IsClockTime(sun_moon_data.moonset.s)) =>
    (HasLateNight(result) <=> MinutesOf(sun_moon_data.moonset.s) < 120)

\* "01:59" gave a Late Night window
C10_Witness ==
  /\ Selected /\ result.kind = "ok"
  /\ sun_moon_data.moonset = Str(HHMM(1, 59))
  /\ HasLateNight(result)

\* the reading with another cloud cover
WithClouds(wd, c) == [wd EXCEPT !.clouds = Num(c)]

\* C11: with every other field fixed, a reading with more cloud cover never
\* gets a higher score.
C11_CloudMonotone ==
  (Assessed /\ result.kind = "ok" /\ weather_data.clouds.k = "num") =>
    \A c2 \in CloudValues :
      c2 >= weather_data.clouds.v =>
        LET r2 == get_stargazing_weather_assessment(WithClouds(weather_data, c2))
        IN r2.kind = "ok" /\ r2.score <= result.score

\* cloud cover 80 was assessed at 70 or less, and 81 scores strictly lower
C11_Witness ==
  /\ Assessed /\ result.kind = "ok"
  /\ weather_data.clouds = Num(80)
  /\ result.score \in 1..70
  /\ get_stargazing_weather_assessment(WithClouds(weather_data, 81)).score < result.score

\* C19: rating, emoji and recommendation come from the same bracket.
C19_SameBracket ==
  (Assessed /\ result.kind = "ok") =>
    \/ /\ result.rating = "Excellent" /\ result.emoji = "glowing star"
       /\ result.recommendation
            = "Perfect conditions for stargazing! Clear skies and excellent visibility."
    \/ /\ result.rating = "Good" /\ result.emoji = "star"
       /\ result.recommendation
            = "Good stargazing weather. Some clouds but should have clear patches."
    \/ /\ result.rating = "Fair" /\ result.emoji = "cloud"
       /\ result.recommendation
            = "Fair conditions. Wait for cloud breaks or focus on bright objects."
    \/ /\ result.rating = "Poor" /\ result.emoji = "cloud with rain"
       /\ result.recommendation = "Poor conditions for stargazing. Plan for another night."

\* a reading at the lower edge of the Good bracket, with its sentence
C19_Witness ==
  /\ Assessed /\ result.kind = "ok"
  /\ result.score = 65
  /\ result.rating = "Good"
  /\ result.recommendation = "Good stargazing weather. Some clouds but should have clear patches."

\* ------------------------------------------------------------------------
\* Properties of the forecast tool and its fetchers
\* ------------------------------------------------------------------------
Logged(ev) == \E i \in 1..Len(log) : log[i].ev = ev
LoggedWith(ev, outs) == \E i \in 1..Len(log) : log[i].ev = ev /\ log[i].out \in outs
\* some event before position i is ev with an outcome in outs
Earlier(i, ev, outs) == \E j \in 1..(i - 1) : log[j].ev = ev /\ log[j].out \in outs
\* the weather fetch has completed before position i
WeatherFetchedBefore(i) ==
  Earlier(i, "mock", {"ok"}) \/ Earlier(i, "weather_union", {"ok"})
    \/ Earlier(i, "openweather", {"ok"})

\* C13: when the weather resolves to the static mock reading, its unclamped
\* sum is 105, its score 100 and its rating Excellent.
C13_MockReadingIsExcellent ==
  (call = "forecast" /\ weather.source = "mock" /\ assessment # Pending) =>
    /\ CurrentOf(weather) = [clouds |-> Num(20), humidity |-> Num(65), wind_speed |-> Num(5),
                             visibility |-> Num(10), rain |-> Num(0)]
    /\ Unclamped(CurrentOf(weather)) = 105
    /\ assessment.kind = "ok"
    /\ assessment.score = 100
    /\ assessment.rating = "Excellent"

\* both providers failed, the mock reading was assessed
C13_Witness ==
  /\ call = "forecast"
  /\ LoggedWith("weather_union", {"error"}) /\ LoggedWith("openweather", {"error"})
  /\ weather.source = "mock"
  /\ assessment # Pending /\ assessment.score = 100

\* C14: the providers are tried in the order Weather Union, OpenWeatherMap,
\* static mock; a later one only after the earlier ones gave nothing usable,
\* and none after the first usable result.
C14_ProviderOrder ==
  call = "forecast" =>
    \A i \in 1..Len(log) :
      /\ log[i].ev = "openweather" =>
           /\ Earlier(i, "weather_union", {"error"})
           /\ ~Earlier(i, "weather_union", {"ok"})
      /\ log[i].ev = "mock" =>
           /\ Earlier(i, "weather_union", {"error"})
           /\ Earlier(i, "openweather", {"error", "no_key"})
           /\ ~Earlier(i, "openweather", {"ok"})
      /\ log[i].ev \in {"weather_union", "openweather", "mock"} => ~WeatherFetchedBefore(i)
      /\ (log[i].ev = "weather_union" /\ log[i].out = "ok") => weather.source = "weather_union"
      /\ (log[i].ev = "openweather" /\ log[i].out = "ok") => weather.source = "openweather"

\* Weather Union failed, OpenWeatherMap answered, and no mock was used
C14_Witness ==
  /\ call = "forecast"
  /\ log # <<>> /\ log[1] = Event("weather_union", "error")
  /\ Len(log) >= 2 /\ log[2] = Event("openweather", "ok")
  /\ weather.source = "openweather"
  /\ pc = "done"
  /\ ~Logged("mock")

\* C15: whatever the providers answer, get_weather_data returns a dict with
\* a "current" section and no "error" key, from the mock when both fail.
C15_WeatherNeverAnError ==
  (call = "forecast" /\ Logged("weather_union") /\ pc \notin {"openweather", "mock"}) =>
    /\ "current" \in weather.keys
    /\ "error" \notin weather.keys
    /\ (LoggedWith("weather_union", {"error"}) /\ LoggedWith("openweather", {"error", "no_key"}))
          => weather.source = "mock"

\* Weather Union failed and OpenWeatherMap has no key: the mock is returned
C15_Witness ==
  /\ call = "forecast"
  /\ log = <<Event("weather_union", "error"), Event("openweather", "no_key"),
             Event("mock", "ok")>>
  /\ weather.source = "mock" /\ "current" \in weather.keys

\* C16: when the astronomy provider fails, get_sun_moon_data returns the
\* static mock data, not an error, and the result carries a label (a "source"
\* key, as the weather mock does) that tells it from provider data.
C16_FallbackIsLabelledMock ==
  (call = "forecast" /\ LoggedWith("sun_moon", {"non200", "exception"})) =>
    /\ astro.is_dict
    /\ "error" \notin astro.keys
    /\ astro.astronomy.sunset = Str(<<49, 56, 58, 52, 53>>)
    /\ astro.astronomy.moonset = Str(<<48, 56, 58, 51, 48>>)
    /\ "source" \in astro.keys

\* C18: the assessor runs after the weather fetch, the selector after both
\* fetches, the language model after the assessor and the selector.
C18_CallOrder ==
  call = "forecast" =>
    \A i \in 1..Len(log) :
      /\ log[i].ev = "assess" => WeatherFetchedBefore(i)
      /\ log[i].ev = "best_times" =>
           WeatherFetchedBefore(i) /\ Earlier(i, "sun_moon", AstroOutcomes)
      /\ log[i].ev = "llm" =>
           /\ Earlier(i, "assess", {"ok", "error"})
           /\ Earlier(i, "best_times", {"ok", "error"})

\* the language model was asked in a run that went through every call
C18_Witness ==
  /\ call = "forecast"
  /\ Logged("assess") /\ Logged("sun_moon") /\ Logged("best_times")
  /\ LoggedWith("llm", {"ok"})
  /\ pc = "done"

\* C20: whatever the fetches and the language model do, the tool returns a
\* non-empty string and lets no exception out; it can always go on until it
\* returns.
C20_AlwaysReturnsText ==
  call = "forecast" =>
    /\ pc = "done" => (result.kind = "text" /\ result.text # "")
    /\ pc # "done" => (result = Pending /\ ENABLED ForecastNext)

\* the language model raised and the tool returned its error text
C20_Witness ==
  /\ call = "forecast"
  /\ LoggedWith("llm", {"exception"})
  /\ pc = "done"
  /\ result.kind = "text" /\ result.text = ErrorText

\* ------------------------------------------------------------------------
\* Properties of calls on the shared service instances
\* ------------------------------------------------------------------------
Finished(c) == call = "shared" /\ callers[c].pc = "done"

\* C12: two calls of the assessor with the same reading return the same
\* score, rating, emoji, factors and recommendation, whatever calls ran
\* before or between them.
C12_SameReadingSameAssessment ==
  \A c, d \in 1..NumCallers :
    (Finished(c) /\ Finished(d) /\ callers[c].op = "assess" /\ callers[d].op = "assess"
       /\ callers[c].wd = callers[d].wd) =>
      callers[c].result = callers[d].result

\* two callers assessed the overcast, rainy reading, and a third call was made
C12_Witness ==
  /\ Finished(1) /\ Finished(2)
  /\ callers[1].op = "assess" /\ callers[2].op = "assess"
  /\ callers[1].wd = callers[2].wd
  /\ callers[1].wd.clouds = Num(90)
  /\ callers[1].result.kind = "ok" /\ callers[1].result.score = 15
  /\ started = 3
  /\ overlap

\* C17: under every interleaving each caller gets the result of running its
\* call alone, and the service instances are left as they were.
C17_ResultAsIfAlone ==
  /\ call = "shared" => services = [weather_union_key |-> "", openweather_key |-> "",
                                     astronomy_api_key |-> "", nasa_api_key |-> "DEMO_KEY"]
  /\ \A c \in 1..NumCallers :
       Finished(c) =>
         callers[c].result =
           (IF callers[c].op = "assess"
            THEN get_stargazing_weather_assessment(callers[c].wd)
            ELSE get_best_viewing_times(callers[c].smd, callers[c].wd))

\* a selector call with two windows finished while an assessor call of
\* another caller was between its statements
C17_Witness ==
  /\ Finished(1)
  /\ callers[1].op = "best_times"
  /\ callers[1].result.kind = "ok" /\ Len(callers[1].result.viewing_times) = 2
  /\ callers[2].op = "assess" /\ callers[2].pc = "rain"
  /\ overlap

\* ------------------------------------------------------------------------
\* The report for a reading the assessor could not assess
\* ------------------------------------------------------------------------
\* C29: when the assessor returns an error result for the fetched reading
\* and the language model answers, the tool returns the report, and the
\* report shows rating Good and score 75.
C29_ErrorAssessmentShowsDefaults ==
  (call = "forecast" /\ pc = "done" /\ assessment = [kind |-> "error"]
     /\ \E i \in 1..Len(log) : log[i] = [ev |-> "llm", out |-> "ok"]) =>
    /\ result.kind = "text"
    /\ result.text = "Stargazing Forecast"
    /\ result.rating = "Good"
    /\ result.score = 75

\* Weather Union answered with cloud_cover null: the assessor failed, the
\* report was returned with the defaults
C29_Witness ==
  /\ call = "forecast" /\ pc = "done"
  /\ weather.source = "weather_union"
  /\ weather.current.clouds = None
  /\ assessment.kind = "error"
  /\ result.kind = "text" /\ result.text = ReportText
  /\ result.score = 75

\* ------------------------------------------------------------------------
\* The qualities of the two windows
\* ------------------------------------------------------------------------
QualityRank(q) ==
  CASE q = "Poor" -> 1 [] q = "Fair" -> 2 [] q = "Good" -> 3 [] q = "Excellent" -> 4

\* C30: when both windows are emitted the Late Night quality is never worse
\* than the Evening quality (Excellent below 30 cloud cover, the Evening
\* quality otherwise), and conditions.overall_quality is the Evening quality,
\* which is Poor above 70, Fair above 40, Good above 20, else Excellent.
C30_LateNightNeverWorse ==
  (Selected /\ result.kind = "ok") =>
    LET w == result.viewing_times
        c == CloudCoverOf(weather_data)
    IN /\ result.conditions.overall_quality = w[1].quality
       /\ w[1].quality = (IF c > 70 THEN "Poor" ELSE IF c > 40 THEN "Fair"
                          ELSE IF c > 20 THEN "Good" ELSE "Excellent")
       /\ Len(w) = 2 =>
            /\ QualityRank(w[2].quality) >= QualityRank(w[1].quality)
            /\ c < 30 => w[2].quality = "Excellent"
            /\ c >= 30 => w[2].quality = w[1].quality

\* cloud cover 29 with an early moonset: Evening Good, Late Night Excellent
C30_Witness ==
  /\ Selected /\ result.kind = "ok"
  /\ CloudCoverOf(weather_data) = 29
  /\ Len(result.viewing_times) = 2
  /\ result.viewing_times[1].quality = "Good"
  /\ result.viewing_times[2].quality = "Excellent"
  /\ result.conditions.overall_quality = "Good"

\* ------------------------------------------------------------------------
\* The table of cities
\* ------------------------------------------------------------------------
\* key is name with every capital letter in lower case and every space
\* turned into an underscore
Normalises(name, key) ==
  /\ Len(name) = Len(key)
  /\ \A i \in 1..Len(name) :
       key[i] = (IF name[i] = 32 THEN 95
                 ELSE IF name[i] \in 65..90 THEN name[i] + 32
                 ELSE name[i])

\* C21: a name that normalises to a key of the table gets the entry of that
\* key, and a name that normalises to no key gets None.
C21_LookupNormalisesName ==
  (call = "get_city_info" /\ result # Pending) =>
    /\ \A i \in DOMAIN INDIAN_CITIES :
         Normalises(args.city_name, INDIAN_CITIES[i].key) =>
           result = [k |-> "dict", d |-> INDIAN_CITIES[i].info]
    /\ (~ \E i \in DOMAIN INDIAN_CITIES : Normalises(args.city_name, INDIAN_CITIES[i].key)) =>
         result.k = "none"

\* "Mount Abu" finds the entry of mount_abu
C21_Witness ==
  /\ call = "get_city_info"
  /\ args.city_name = <<77, 111, 117, 110, 116, 32, 65, 98, 117>>
  /\ result # Pending
  /\ result.k = "dict"
  /\ result.d.state = "Rajasthan" /\ result.d.lat = 245925

\* C23: find_nearby_cities returns exactly the entries within the radius, as
\* (name, info, distance) triples in order of non-decreasing distance, also
\* when some entry lies within the radius.
C23_NearbyWithinRadiusSorted ==
  (call = "find_nearby_cities" /\ result # Pending) =>
    /\ result.kind = "ok"
    /\ LET km == Haversine(args.lat, args.lon)
           found == result.cities
       IN /\ \A i \in DOMAIN INDIAN_CITIES :
               km[i] <= args.radius_km <=>
                 \E j \in 1..Len(found) :
                   found[j] = <<INDIAN_CITIES[i].key, INDIAN_CITIES[i].info, km[i]>>
          /\ Len(found) = Cardinality({i \in DOMAIN INDIAN_CITIES : km[i] <= args.radius_km})
          /\ \A j \in 1..(Len(found) - 1) : found[j][3] <= found[j + 1][3]

\* ------------------------------------------------------------------------
\* The events of the coming days
\* ------------------------------------------------------------------------
\* a date text "YYYY-MM-DD" read back, and the number of a date counted from
\* 1 January 2024, for the years 2024 to 2026
DigitAt(text, i) == text[i] - 48
ReadDate(text) ==
  [year |-> 1000 * DigitAt(text, 1) + 100 * DigitAt(text, 2) + 10 * DigitAt(text, 3)
              + DigitAt(text, 4),
   month |-> 10 * DigitAt(text, 6) + DigitAt(text, 7),
   day |-> 10 * DigitAt(text, 9) + DigitAt(text, 10)]
DaysBeforeMonth == <<0, 31, 59, 90, 120, 151, 181, 212, 243, 273, 304, 334>>
DayNumber(d) ==
  (IF d.year = 2024 THEN 0 ELSE IF d.year = 2025 THEN 366 ELSE 731)
    + DaysBeforeMonth[d.month] + (IF d.year = 2024 /\ d.month > 2 THEN 1 ELSE 0) + d.day
IsDateText(text) ==
  /\ Len(text) = 10 /\ text[5] = 45 /\ text[8] = 45
  /\ \A i \in {1, 2, 3, 4, 6, 7, 9, 10} : text[i] \in 48..57
  /\ ReadDate(text).month \in 1..12
  /\ ReadDate(text).day >= 1

\* C26: the events are those of the dates today .. today + n - 1 in date
\* order: a Jupiter event on each date whose day of the month divides by 7,
\* followed by a Geminids event on the same date when it divides by 14; no
\* event when n <= 0.
C26_EventsOfTheComingDays ==
  (call = "get_celestial_events" /\ result # Pending) =>
    /\ result.kind = "ok"
    /\ LET ev == result.events
           n == args.days_ahead
           today == DayNumber(args.base_date)
           Offset(i) == DayNumber(ReadDate(ev[i].date)) - today
           Jupiter(i) == ev[i].event = "Jupiter at opposition"
           Geminids(i) == ev[i].event = "Geminids Meteor Shower peak"
       IN /\ n <= 0 => ev = <<>>
          /\ \A i \in 1..Len(ev) :
               /\ IsDateText(ev[i].date)
               /\ Offset(i) \in 0..(n - 1)
               /\ Jupiter(i) \/ Geminids(i)
               /\ Jupiter(i) => ReadDate(ev[i].date).day % 7 = 0
               /\ Geminids(i) =>
                    /\ ReadDate(ev[i].date).day % 14 = 0
                    /\ i > 1 /\ Jupiter(i - 1) /\ ev[i - 1].date = ev[i].date
               /\ i < Len(ev) =>
                    \/ Offset(i) < Offset(i + 1)
                    \/ Offset(i) = Offset(i + 1) /\ Jupiter(i) /\ Geminids(i + 1)
          \* every date of the period that divides has its events
          /\ \A j \in 0..(n - 1) :
               LET d == AddDays(args.base_date, j)
               IN /\ d.day % 7 = 0 =>
                       \E i \in 1..Len(ev) : Jupiter(i) /\ ReadDate(ev[i].date) = d
                  /\ d.day % 14 = 0 =>
                       \E i \in 1..Len(ev) : Geminids(i) /\ ReadDate(ev[i].date) = d
                  /\ DayNumber(d) = today + j

\* fourteen days from 27 February 2024: both events on the 28th, then
\* Jupiter on 7 March, past the 29th
C26_Witness ==
  /\ call = "get_celestial_events" /\ result # Pending
  /\ args = [base_date |-> [year |-> 2024, month |-> 2, day |-> 27], days_ahead |-> 14]
  /\ Len(result.events) = 3
  /\ result.events[1].date = <<50, 48, 50, 52, 45, 48, 50, 45, 50, 56>>
  /\ result.events[2].event = "Geminids Meteor Shower peak"
  /\ result.events[3].date = <<50, 48, 50, 52, 45, 48, 51, 45, 48, 55>>

\* ------------------------------------------------------------------------
\* The keep-alive loop
\* ------------------------------------------------------------------------
\* the lines printed for responses, and the number of WARNING lines at the
\* end of them since the last SUCCESS or ALARM line
ResponseLines == SelectSeq(printed, LAMBDA l : l.out # "EXCEPTION")
RECURSIVE Streak(_)
Streak(lines) ==
  IF lines = <<>> \/ lines[Len(lines)].out # "WARNING" THEN 0
  ELSE 1 + Streak(SubSeq(lines, 1, Len(lines) - 1))

\* C27: at the start of every iteration consecutive_failures is in 0..2 and
\* counts the non-success responses since the last success or alarm; the
\* alarm is printed exactly after the third such response.
C27_FailuresCounted ==
  call = "keep_alive" =>
    LET lines == ResponseLines
    IN /\ loop_pc = "sleep" =>
            /\ consecutive_failures \in 0..2
            /\ consecutive_failures = Streak(lines)
       /\ \A i \in 1..Len(lines) :
            /\ lines[i].out = "SUCCESS" <=> lines[i].status \in {200, 202}
            /\ lines[i].out = "ALARM" =>
                 i > 3 /\ \A j \in (i - 3)..(i - 1) : lines[j].out = "WARNING"
            /\ (lines[i].out = "WARNING" /\ Streak(SubSeq(lines, 1, i)) = 3) =>
                 IF i < Len(lines) THEN lines[i + 1].out = "ALARM"
                 ELSE loop_pc = "failures"

\* a failure, a ping that raised, two more failures: the alarm, and the
\* counter back at 0
C27_Witness ==
  /\ call = "keep_alive"
  /\ loop_pc = "sleep"
  /\ Len(printed) = 5
  /\ printed[1].out = "WARNING" /\ printed[2].out = "EXCEPTION"
  /\ printed[3].out = "WARNING" /\ printed[4].out = "WARNING"
  /\ printed[5].out = "ALARM"
  /\ consecutive_failures = 0

\* the value of consecutive_failures that line i of the output leaves
LeftBy(i) ==
  IF i = 0 \/ printed[i].out \in {"SUCCESS", "ALARM"} THEN 0 ELSE printed[i].failures

\* C28: a ping that raises leaves consecutive_failures as it was and the
\* loop running, and no alarm follows it: pings that raise, however many in
\* a row, print no alarm.
C28_ExceptionsNeverAlarm ==
  call = "keep_alive" =>
    \A i \in 1..Len(printed) :
      printed[i].out = "EXCEPTION" =>
        /\ printed[i].failures = LeftBy(i - 1)
        /\ IF i < Len(printed)
           THEN /\ printed[i + 1].out # "ALARM"
                /\ printed[i + 1].out = "EXCEPTION" => printed[i + 1].failures = printed[i].failures
                /\ printed[i + 1].out = "WARNING" =>
                     printed[i + 1].failures = printed[i].failures + 1
           ELSE /\ consecutive_failures = printed[i].failures
                /\ loop_pc \in {"sleep", "post", "check", "except"}
                /\ (loop_pc = "sleep" /\ iterations < MaxIterations) => ENABLED Sleep

\* two failures, then three pings in a row that raise: no alarm, the
\* counter still at 2
C28_Witness ==
  /\ call = "keep_alive"
  /\ loop_pc = "sleep"
  /\ Len(printed) = 5
  /\ printed[1].out = "WARNING" /\ printed[2].out = "WARNING"
  /\ \A i \in 3..5 : printed[i].out = "EXCEPTION"
  /\ consecutive_failures = 2

\* ------------------------------------------------------------------------
\* The validate tool
\* ------------------------------------------------------------------------
\* C22: every call of validate returns "918920560661", whatever tools were
\* called before it and however often validate was called.
C22_ValidateReturnsNumber ==
  call \in {"minimal_server", "working_server"} =>
    \A i \in 1..Len(served) :
      served[i].tool = "validate" => served[i].returned = "918920560661"

\* validate, about, help, validate on the working server
C22_Witness ==
  /\ call = "working_server"
  /\ Len(served) = 4
  /\ served[1] = [tool |-> "validate", returned |-> "918920560661"]
  /\ served[2].tool = "about" /\ served[3].tool = "help"
  /\ served[4] = [tool |-> "validate", returned |-> "918920560661"]

\* ------------------------------------------------------------------------
\* The tools that take a city
\* ------------------------------------------------------------------------
Resolves(city) == \E i \in DOMAIN INDIAN_CITIES : Normalises(city, INDIAN_CITIES[i].key)
Asked(ev, out) == \E i \in 1..Len(log) : log[i] = [ev |-> ev, out |-> out]

\* C24: for a city of the table and a radius >= 0, when the language model
\* answers, suggest_stargazing_locations returns the report, whose nearby
\* section lists the cities more than 10 km away among the 5 nearest.
C24_SuggestionsReported ==
  (call = "suggest_stargazing_locations" /\ pc = "done" /\ Resolves(args.city)
     /\ args.radius_km >= 0 /\ Asked("llm", "ok")) =>
    /\ result.kind = "text"
    /\ result.text = "Best Stargazing Locations"
    /\ Len(result.nearby_info) <= 5
    /\ \A i \in 1..Len(result.nearby_info) :
         /\ result.nearby_info[i].distance > 10
         /\ result.nearby_info[i].distance <= args.radius_km

\* C25: when the city is not in the table, each of the four tools returns
\* its "not found" message and fetches nothing and asks no model.
C25_UnknownCityStopsTheTool ==
  (call \in {"forecast", "find_celestial_object", "get_upcoming_events",
             "suggest_stargazing_locations"} /\ ~Resolves(args.city)) =>
    /\ log = <<>>
    /\ weather.keys = {} /\ astro.keys = {}
    /\ pc \in {"lookup", "done"}
    /\ pc = "lookup" => result = Pending
    /\ pc = "done" =>
         /\ result.kind = "text"
         /\ result.text \in {"City not found in Indian locations database",
                             "City not found. Available cities", "City not found. Try",
                             "City not found in database"}

\* find_celestial_object called with " delhi" has returned
C25_Witness ==
  /\ call = "find_celestial_object"
  /\ args.city = <<32, 100, 101, 108, 104, 105>>
  /\ pc = "done"
  /\ result = [kind |-> "text", text |-> "City not found. Available cities"]
  /\ log = <<>>

====
